---- MODULE Spec2Model ----
(***************************************************************************)
(* mapx: two copy-on-write concurrent maps.                                *)
(*   CASMap     (cas_map.go)     atomic.Pointer + CompareAndSwap retry     *)
(*   RWMutexMap (rwmutex_map.go) atomic.Value + sync.Mutex for writers     *)
(* One container of one of the two types is shared by the goroutines of    *)
(* Procs.  Every step of a goroutine holds at most one access to shared    *)
(* memory (the cell, the lock, or a snapshot reached through a pointer).   *)
(***************************************************************************)
EXTENDS Integers, Sequences, FiniteSets, TLC

\* ---- bounds of the model ----
NumProcs == 2
NumKeys == 2
MaxVal == 2
MaxCalls == 2
MaxWrites == 2
MaxReads == 1
MaxSeq == 3
MaxRanges == 2
MaxInserts == 3

Procs == 1..NumProcs
Keys == 1..NumKeys
\* V is int: Zero is Go's zero value of V, and a legal value to store.
Zero == 0
Vals == Zero..MaxVal

VARIABLES
    engine,   \* "cas": the container is a CASMap; "mutex": a RWMutexMap
    heap,     \* heap[a]: the map object at address a (every published map)
    cell,     \* m.data: the address the atomic cell holds
    mu,       \* m.mu: 0 when free, else the goroutine holding it
    pubs,     \* pubs[a]: who stored address a into the cell, and what it replaced
    pc,       \* pc[p]: position of goroutine p inside its current call
    op,       \* op[p]: the call goroutine p is executing
    data,     \* local `data` of the read paths: the address loaded
    oldPtr,   \* local `oldPtr` / `oldMap` of the write paths: the address loaded
    newMap,   \* local `newMap`: the private copy being built
    newPtr,   \* &newMap once it has been stored into the cell, else 0
    acc,      \* Range: entries visited so far; Keys/Values: the slice built so far
    rv,       \* mutex engine: the return value fixed before the deferred Unlock
    floor,    \* newest address published by a write that had returned when the call began
    hist,     \* hist[p]: the calls goroutine p has completed, with their results
    outer     \* outer[p]: the frame of Range while its visitor runs a method of the map

shared == <<engine, heap, cell, mu, pubs>>
vars == <<engine, heap, cell, mu, pubs, pc, op, data, oldPtr, newMap, newPtr, acc, rv, floor, hist, outer>>

\* ---- Go's built-in map, as a function from a subset of Keys ----
EmptyMap == [k \in {} |-> Zero]

\* Faulty variant of Lookup: the key is never found.
LookupAbsent(m, k) == <<Zero, FALSE>>
\* Faulty variant of Lookup: presence judged by v # zero instead of ok.
LookupNonZero(m, k) == IF k \in DOMAIN m /\ m[k] # Zero THEN <<m[k], TRUE>> ELSE <<Zero, FALSE>>
\* v, ok := m[k]
Lookup(m, k) == IF k \in DOMAIN m THEN <<m[k], TRUE>> ELSE <<Zero, FALSE>>

\* Faulty variant of MapPut: an insert that does not overwrite.
MapPutKeep(m, k, v) == [x \in (DOMAIN m) \cup {k} |-> IF x \in DOMAIN m THEN m[x] ELSE v]
\* m[k] = v
MapPut(m, k, v) == [x \in (DOMAIN m) \cup {k} |-> IF x = k THEN v ELSE m[x]]

\* delete(m, k)
MapDelete(m, k) == [x \in (DOMAIN m) \ {k} |-> m[x]]

\* ---- calls and results ----
MkCall(n, k, v, o) == [name |-> n, key |-> k, value |-> v, old |-> o]
NoCall == MkCall("none", 0, Zero, Zero)

GetCalls == {MkCall("Get", k, Zero, Zero) : k \in Keys}
HasCalls == {MkCall("Has", k, Zero, Zero) : k \in Keys}
DeleteCalls == {MkCall("Delete", k, Zero, Zero) : k \in Keys}
SetCalls == {MkCall("Set", k, v, Zero) : k \in Keys, v \in Vals}
GetOrSetCalls == {MkCall("GetOrSet", k, v, Zero) : k \in Keys, v \in Vals}
SetIfAbsentCalls == {MkCall("SetIfAbsent", k, v, Zero) : k \in Keys, v \in Vals}
CompareAndSwapCalls == {MkCall("CompareAndSwap", k, n, o) : k \in Keys, n \in Vals, o \in Vals}
NullaryCalls == {MkCall(n, 0, Zero, Zero) : n \in {"Len", "Clear", "Range", "Keys", "Values"}}

AllCalls ==
    GetCalls \cup HasCalls \cup DeleteCalls \cup SetCalls \cup GetOrSetCalls
        \cup SetIfAbsentCalls \cup CompareAndSwapCalls \cup NullaryCalls

ReadNames == {"Get", "Has", "Len", "Range", "Keys", "Values"}
WriteNames == {"Set", "Delete", "Clear", "GetOrSet", "SetIfAbsent", "CompareAndSwap"}

\* A result: v the value (or the count of Len), ok the boolean, seq the
\* sequence returned by Keys/Values or the entries Range handed to its visitor.
Ret(v, ok, s) == [v |-> v, ok |-> ok, seq |-> s]
Void == Ret(Zero, TRUE, <<>>)

\* ---- the atomic cell ----
\* Addresses are never reused while a goroutine holds them (garbage
\* collection), so an address names one map object for ever.

\* Faulty variant of load: a stale, non-atomic read of the cell.
loadStale == IF cell > 1 THEN cell - 1 ELSE cell
\* m.data.Load()
load == cell

\* Faulty variant of CASMatches: a weak compare-and-swap that fails although
\* the cell holds the expected pointer.
CASweak(old) == FALSE
\* Faulty variant of CASMatches: m.data.CompareAndSwap(m.data.Load(), &newMap),
\* the comparison against a pointer loaded anew.
CASreload(old) == cell = load
\* Faulty variant of CASMatches: a Store in place of the CompareAndSwap.
CASblind(old) == TRUE
\* the comparison m.data.CompareAndSwap(old, new) makes
CASMatches(old) == cell = old

\* Faulty variant of copyMap: the copy misses one pair.
copyMapDropsOne(oldMap) ==
    IF DOMAIN oldMap = {} THEN oldMap
    ELSE LET d == CHOOSE k \in DOMAIN oldMap : \A x \in DOMAIN oldMap : k <= x
         IN  [k \in (DOMAIN oldMap) \ {d} |-> oldMap[k]]
\* copyMap: a new map holding every pair of oldMap
copyMap(oldMap) == [k \in DOMAIN oldMap |-> oldMap[k]]

\* Faulty variant of compare: no comparison.
compareAlways(a, b) == TRUE
\* compare: any(a) == any(b), for V = int
compare(a, b) == a = b

\* Faulty variant of Publish: the current map is overwritten in place, no new
\* object is stored.
PublishInPlace(p, m) ==
    /\ heap' = [heap EXCEPT ![cell] = m]
    /\ cell' = cell
    /\ pubs' = Append(pubs, [proc |-> p, call |-> op[p], prev |-> cell])
\* Storing &m into the cell (Store, or a CompareAndSwap that succeeds).
Publish(p, m) ==
    /\ heap' = Append(heap, m)
    /\ cell' = Len(heap) + 1
    /\ pubs' = Append(pubs, [proc |-> p, call |-> op[p], prev |-> cell])

\* ---- calling and returning ----
Max(S) == CHOOSE x \in S : \A y \in S : y <= x

\* The newest address published by a call that has returned (1: the constructor).
RetPub == Max({1} \cup UNION {{hist[q][i].pub : i \in 1..Len(hist[q])} : q \in Procs})

\* <<p, i>>: the i-th call of goroutine p has returned.
HistIdx == UNION {{<<q, i>> : i \in 1..Len(hist[q])} : q \in Procs}

\* The calls made so far, returned or not, of the methods in names.
NumMade(names) ==
    Cardinality({x \in HistIdx : hist[x[1]][x[2]].call.name \in names})
        + Cardinality({q \in Procs : op[q].name \in names})

NumCalls == NumMade(ReadNames \cup WriteNames)

Entry(c) ==
    IF c.name = "GetOrSet" THEN "fast"
    ELSE IF c.name \in ReadNames THEN "load"
    ELSE IF engine = "mutex" THEN "lock"
    ELSE IF c.name = "Clear" THEN "store"
    ELSE "load"

\* Goroutine p invokes method c.name on the shared container.
Call(p, c) ==
    /\ pc[p] = "idle"
    /\ op' = [op EXCEPT ![p] = c]
    /\ pc' = [pc EXCEPT ![p] = Entry(c)]
    /\ floor' = [floor EXCEPT ![p] = RetPub]
    /\ UNCHANGED <<shared, data, oldPtr, newMap, newPtr, acc, rv, hist, outer>>

\* The call of p returns r; a is the address it published (0: none), obs the
\* address its last load of the cell returned (0: it never loaded).
Return(p, r, a) ==
    /\ pc' = [pc EXCEPT ![p] = "idle"]
    /\ hist' = [hist EXCEPT ![p] = Append(@,
                    [call |-> op[p], ret |-> r, pub |-> a,
                     obs |-> IF oldPtr[p] # 0 THEN oldPtr[p] ELSE data[p]])]
    /\ op' = [op EXCEPT ![p] = NoCall]
    /\ data' = [data EXCEPT ![p] = 0]
    /\ oldPtr' = [oldPtr EXCEPT ![p] = 0]
    /\ newMap' = [newMap EXCEPT ![p] = EmptyMap]
    /\ newPtr' = [newPtr EXCEPT ![p] = 0]
    /\ acc' = [acc EXCEPT ![p] = <<>>]
    /\ rv' = [rv EXCEPT ![p] = Void]
    /\ floor' = [floor EXCEPT ![p] = 0]
    /\ UNCHANGED outer

Goto(p, l) == pc' = [pc EXCEPT ![p] = l]

\* No call of Range is suspended in its visitor.
NoFrame == [op |-> NoCall, data |-> 0, acc |-> <<>>]

\* NewCASMap / NewRWMutexMap: the cell holds a fresh empty map, the lock is free.
Init ==
    /\ engine \in {"cas", "mutex"}
    /\ heap = <<EmptyMap>>
    /\ cell = 1
    /\ mu = 0
    /\ pubs = <<[proc |-> 0, call |-> NoCall, prev |-> 0]>>
    /\ pc = [p \in Procs |-> "idle"]
    /\ op = [p \in Procs |-> NoCall]
    /\ data = [p \in Procs |-> 0]
    /\ oldPtr = [p \in Procs |-> 0]
    /\ newMap = [p \in Procs |-> EmptyMap]
    /\ newPtr = [p \in Procs |-> 0]
    /\ acc = [p \in Procs |-> <<>>]
    /\ rv = [p \in Procs |-> Void]
    /\ floor = [p \in Procs |-> 0]
    /\ hist = [p \in Procs |-> <<>>]
    /\ outer = [p \in Procs |-> NoFrame]

\* ---- steps shared by the methods ----
\* Faulty variant of LoadData: the load waits while a writer holds the lock.
LoadDataLocked(p, next) ==
    /\ mu = 0
    /\ data' = [data EXCEPT ![p] = load]
    /\ Goto(p, next)
    /\ UNCHANGED <<shared, op, oldPtr, newMap, newPtr, acc, rv, floor, hist, outer>>
\* Faulty variant of LoadData: a plain, non-atomic read of the pointer, which
\* may return a pointer the cell held earlier.
LoadDataRelaxed(p, next) ==
    /\ \E a \in 1..cell : data' = [data EXCEPT ![p] = a]
    /\ Goto(p, next)
    /\ UNCHANGED <<shared, op, oldPtr, newMap, newPtr, acc, rv, floor, hist, outer>>
\* data := m.load(): the atomic load of the read paths
LoadData(p, next) ==
    /\ data' = [data EXCEPT ![p] = load]
    /\ Goto(p, next)
    /\ UNCHANGED <<shared, op, oldPtr, newMap, newPtr, acc, rv, floor, hist, outer>>

\* oldPtr := m.data.Load() (CASMap), oldMap := m.load() (RWMutexMap)
LoadOldPtr(p, next) ==
    /\ oldPtr' = [oldPtr EXCEPT ![p] = load]
    /\ Goto(p, next)
    /\ UNCHANGED <<shared, op, data, newMap, newPtr, acc, rv, floor, hist, outer>>

\* Faulty variant of Build: the mutation is applied to the loaded map itself.
BuildInPlace(p, m, next) ==
    /\ heap' = [heap EXCEPT ![oldPtr[p]] = m]
    /\ newMap' = [newMap EXCEPT ![p] = m]
    /\ Goto(p, next)
    /\ UNCHANGED <<engine, cell, mu, pubs, op, data, oldPtr, newPtr, acc, rv, floor, hist, outer>>
\* newMap := m.copyMap(oldMap) followed by the mutation of the private copy
Build(p, m, next) ==
    /\ newMap' = [newMap EXCEPT ![p] = m]
    /\ Goto(p, next)
    /\ UNCHANGED <<shared, op, data, oldPtr, newPtr, acc, rv, floor, hist, outer>>

\* Faulty variant of Finish: the return path stores a copy of the current map.
FinishStoring(p, r) ==
    /\ Publish(p, copyMap(heap[cell]))
    /\ Return(p, r, 0)
    /\ UNCHANGED <<engine, mu>>
\* a return that publishes nothing
Finish(p, r) ==
    /\ Return(p, r, 0)
    /\ UNCHANGED shared

\* Faulty variant of Retry: the next iteration copies from the pointer already
\* held, without loading the cell again.
RetryStale(p) ==
    /\ Goto(p, "copy")
    /\ UNCHANGED <<shared, op, data, oldPtr, newMap, newPtr, acc, rv, floor, hist, outer>>
\* "CAS failed, retry": the next iteration of the for loop
Retry(p) ==
    /\ Goto(p, "load")
    /\ oldPtr' = [oldPtr EXCEPT ![p] = 0]
    /\ newMap' = [newMap EXCEPT ![p] = EmptyMap]
    /\ UNCHANGED <<shared, op, data, newPtr, acc, rv, floor, hist, outer>>

\* Faulty variant of TryCAS: after a failed CAS the same pointer is tried again,
\* the cell is not loaded anew.
TryCASStale(p, r) ==
    IF CASMatches(oldPtr[p])
    THEN /\ Publish(p, newMap[p])
         /\ Return(p, r, Len(heap) + 1)
         /\ UNCHANGED <<engine, mu>>
    ELSE UNCHANGED vars
\* Faulty variant of TryCAS: no for loop, the method returns after a failed CAS.
TryCASOnce(p, r) ==
    IF CASMatches(oldPtr[p])
    THEN /\ Publish(p, newMap[p])
         /\ Return(p, r, Len(heap) + 1)
         /\ UNCHANGED <<engine, mu>>
    ELSE Finish(p, r)
\* if m.data.CompareAndSwap(oldPtr, &newMap) { return r }
TryCAS(p, r) ==
    IF CASMatches(oldPtr[p])
    THEN /\ Publish(p, newMap[p])
         /\ Return(p, r, Len(heap) + 1)
         /\ UNCHANGED <<engine, mu>>
    ELSE Retry(p)

\* The entries of the loaded map the iteration has not produced yet.
Unvisited(p) == (DOMAIN heap[data[p]]) \ {acc[p][i][1] : i \in 1..Len(acc[p])}

\* keys = append(keys, k) / values = append(values, v), over the entries produced
Collected(which, s) == [i \in 1..Len(s) |-> IF which = "Keys" THEN s[i][1] ELSE s[i][2]]

\* The visitor f passed to Range, by what it answers: c.value = 1 is a visitor
\* that always returns false, 2 one that always returns true, any other value
\* a visitor whose answers are arbitrary.
Answers(c) == IF c.value = 1 THEN {FALSE} ELSE IF c.value = 2 THEN {TRUE} ELSE BOOLEAN

\* Faulty variant of RangeIter: the answer of the visitor is ignored.
RangeIterNoBreak(p) ==
    IF Unvisited(p) = {}
    THEN Finish(p, Ret(Zero, TRUE, acc[p]))
    ELSE \E k \in Unvisited(p), c \in Answers(op[p]) :
            /\ acc' = [acc EXCEPT ![p] = Append(@, <<k, heap[data[p]][k]>>)]
            /\ UNCHANGED <<shared, pc, op, data, oldPtr, newMap, newPtr, rv, floor, hist, outer>>
\* for k, v := range data { if !f(k, v) { break } }: one iteration; c is the
\* answer of the visitor f.
RangeIter(p) ==
    IF Unvisited(p) = {}
    THEN Finish(p, Ret(Zero, TRUE, acc[p]))
    ELSE \E k \in Unvisited(p), c \in Answers(op[p]) :
            LET seen == Append(acc[p], <<k, heap[data[p]][k]>>)
            IN  IF c
                THEN /\ acc' = [acc EXCEPT ![p] = seen]
                     /\ UNCHANGED <<shared, pc, op, data, oldPtr, newMap, newPtr, rv, floor, hist, outer>>
                ELSE Finish(p, Ret(Zero, FALSE, seen))

\* Faulty variant of CollectIter: every iteration reads the map the cell
\* holds at that moment.
CollectIterLive(p) ==
    LET rest == (DOMAIN heap[load]) \ {acc[p][i][1] : i \in 1..Len(acc[p])}
    IN  IF rest = {}
        THEN Finish(p, Ret(Zero, TRUE, Collected(op[p].name, acc[p])))
        ELSE \E k \in rest :
                /\ acc' = [acc EXCEPT ![p] = Append(@, <<k, heap[load][k]>>)]
                /\ UNCHANGED <<shared, pc, op, data, oldPtr, newMap, newPtr, rv, floor, hist, outer>>
\* for k, v := range data { s = append(s, ...) }: one iteration, or the return
CollectIter(p) ==
    IF Unvisited(p) = {}
    THEN Finish(p, Ret(Zero, TRUE, Collected(op[p].name, acc[p])))
    ELSE \E k \in Unvisited(p) :
            /\ acc' = [acc EXCEPT ![p] = Append(@, <<k, heap[data[p]][k]>>)]
            /\ UNCHANGED <<shared, pc, op, data, oldPtr, newMap, newPtr, rv, floor, hist, outer>>

\* ---- CASMap (cas_map.go) ----
CASMap_Get(p) ==
    /\ engine = "cas" /\ op[p].name = "Get"
    /\ \/ pc[p] = "load" /\ LoadData(p, "read")
       \/ /\ pc[p] = "read"
          /\ LET r == Lookup(heap[data[p]], op[p].key)
             IN  Finish(p, Ret(r[1], r[2], <<>>))

CASMap_Set(p) ==
    /\ engine = "cas" /\ op[p].name = "Set"
    /\ \/ pc[p] = "load" /\ LoadOldPtr(p, "copy")
       \/ /\ pc[p] = "copy"
          /\ Build(p, MapPut(copyMap(heap[oldPtr[p]]), op[p].key, op[p].value), "cas")
       \/ pc[p] = "cas" /\ TryCAS(p, Void)

CASMap_Delete(p) ==
    /\ engine = "cas" /\ op[p].name = "Delete"
    /\ \/ pc[p] = "load" /\ LoadOldPtr(p, "copy")
       \/ /\ pc[p] = "copy"
          /\ IF ~Lookup(heap[oldPtr[p]], op[p].key)[2]
             THEN Finish(p, Void)
             ELSE Build(p, MapDelete(copyMap(heap[oldPtr[p]]), op[p].key), "cas")
       \/ pc[p] = "cas" /\ TryCAS(p, Void)

CASMap_Len(p) ==
    /\ engine = "cas" /\ op[p].name = "Len"
    /\ \/ pc[p] = "load" /\ LoadData(p, "read")
       \/ /\ pc[p] = "read"
          /\ Finish(p, Ret(Cardinality(DOMAIN heap[data[p]]), TRUE, <<>>))

CASMap_Has(p) ==
    /\ engine = "cas" /\ op[p].name = "Has"
    /\ \/ pc[p] = "load" /\ LoadData(p, "read")
       \/ /\ pc[p] = "read"
          /\ Finish(p, Ret(Zero, Lookup(heap[data[p]], op[p].key)[2], <<>>))

\* Faulty variant of CASMap_Clear: the map stored is a copy of the current one.
CASMap_ClearCopy(p) ==
    /\ engine = "cas" /\ op[p].name = "Clear"
    /\ pc[p] = "store"
    /\ Publish(p, copyMap(heap[load]))
    /\ Return(p, Void, Len(heap) + 1)
    /\ UNCHANGED <<engine, mu>>

CASMap_Clear(p) ==
    /\ engine = "cas" /\ op[p].name = "Clear"
    /\ pc[p] = "store"
    /\ Publish(p, EmptyMap)
    /\ Return(p, Void, Len(heap) + 1)
    /\ UNCHANGED <<engine, mu>>

CASMap_Range(p) ==
    /\ engine = "cas" /\ op[p].name = "Range"
    /\ \/ pc[p] = "load" /\ LoadData(p, "iter")
       \/ pc[p] = "iter" /\ RangeIter(p)

CASMap_Keys(p) ==
    /\ engine = "cas" /\ op[p].name = "Keys"
    /\ \/ pc[p] = "load" /\ LoadData(p, "iter")
       \/ pc[p] = "iter" /\ CollectIter(p)

CASMap_Values(p) ==
    /\ engine = "cas" /\ op[p].name = "Values"
    /\ \/ pc[p] = "load" /\ LoadData(p, "iter")
       \/ pc[p] = "iter" /\ CollectIter(p)

CASMap_GetOrSet(p) ==
    /\ engine = "cas" /\ op[p].name = "GetOrSet"
    /\ \/ pc[p] = "fast" /\ LoadData(p, "check")
       \/ /\ pc[p] = "check"
          /\ LET r == Lookup(heap[data[p]], op[p].key)
             IN  IF r[2]
                 THEN Finish(p, Ret(r[1], TRUE, <<>>))
                 ELSE /\ Goto(p, "load")
                      /\ UNCHANGED <<shared, op, data, oldPtr, newMap, newPtr, acc, rv, floor, hist, outer>>
       \/ pc[p] = "load" /\ LoadOldPtr(p, "copy")
       \/ /\ pc[p] = "copy"
          /\ LET r == Lookup(heap[oldPtr[p]], op[p].key)
             IN  IF r[2]
                 THEN Finish(p, Ret(r[1], TRUE, <<>>))
                 ELSE Build(p, MapPut(copyMap(heap[oldPtr[p]]), op[p].key, op[p].value), "cas")
       \/ pc[p] = "cas" /\ TryCAS(p, Ret(op[p].value, FALSE, <<>>))

CASMap_SetIfAbsent(p) ==
    /\ engine = "cas" /\ op[p].name = "SetIfAbsent"
    /\ \/ pc[p] = "load" /\ LoadOldPtr(p, "copy")
       \/ /\ pc[p] = "copy"
          /\ IF Lookup(heap[oldPtr[p]], op[p].key)[2]
             THEN Finish(p, Ret(Zero, FALSE, <<>>))
             ELSE Build(p, MapPut(copyMap(heap[oldPtr[p]]), op[p].key, op[p].value), "cas")
       \/ pc[p] = "cas" /\ TryCAS(p, Ret(Zero, TRUE, <<>>))

CASMap_CompareAndSwap(p) ==
    /\ engine = "cas" /\ op[p].name = "CompareAndSwap"
    /\ \/ pc[p] = "load" /\ LoadOldPtr(p, "copy")
       \/ /\ pc[p] = "copy"
          /\ LET r == Lookup(heap[oldPtr[p]], op[p].key)
             IN  IF ~r[2] \/ ~compare(r[1], op[p].old)
                 THEN Finish(p, Ret(Zero, FALSE, <<>>))
                 ELSE Build(p, MapPut(copyMap(heap[oldPtr[p]]), op[p].key, op[p].value), "cas")
       \/ pc[p] = "cas" /\ TryCAS(p, Ret(Zero, TRUE, <<>>))

CASMap_Step(p) ==
    \/ CASMap_Get(p) \/ CASMap_Set(p) \/ CASMap_Delete(p) \/ CASMap_Len(p)
    \/ CASMap_Has(p) \/ CASMap_Clear(p) \/ CASMap_Range(p) \/ CASMap_Keys(p)
    \/ CASMap_Values(p) \/ CASMap_GetOrSet(p) \/ CASMap_SetIfAbsent(p)
    \/ CASMap_CompareAndSwap(p)

\* ---- RWMutexMap (rwmutex_map.go) ----
\* Faulty variant of Lock: the lock is taken without waiting for its holder.
LockNoWait(p, next) ==
    /\ mu' = p
    /\ Goto(p, next)
    /\ UNCHANGED <<engine, heap, cell, pubs, op, data, oldPtr, newMap, newPtr, acc, rv, floor, hist, outer>>
\* m.mu.Lock(): blocks while another goroutine holds the lock
Lock(p, next) ==
    /\ mu = 0
    /\ mu' = p
    /\ Goto(p, next)
    /\ UNCHANGED <<engine, heap, cell, pubs, op, data, oldPtr, newMap, newPtr, acc, rv, floor, hist, outer>>

\* m.data.Store(&newMap) under the lock; r is the value of the return statement
Store(p, m, r) ==
    /\ Publish(p, m)
    /\ newPtr' = [newPtr EXCEPT ![p] = Len(heap) + 1]
    /\ rv' = [rv EXCEPT ![p] = r]
    /\ Goto(p, "unlock")
    /\ UNCHANGED <<engine, mu, op, data, oldPtr, newMap, acc, floor, hist, outer>>

\* Faulty variant of Defer: the early return leaves without the deferred Unlock.
DeferReturn(p, r) == Finish(p, r)
\* Faulty variant of Defer: the early return stores a copy of the current map.
DeferStoring(p, r) ==
    /\ Publish(p, copyMap(heap[cell]))
    /\ rv' = [rv EXCEPT ![p] = r]
    /\ Goto(p, "unlock")
    /\ UNCHANGED <<engine, mu, op, data, oldPtr, newMap, newPtr, acc, floor, hist, outer>>
\* a return statement under the lock that stores nothing: the deferred Unlock is next
Defer(p, r) ==
    /\ rv' = [rv EXCEPT ![p] = r]
    /\ Goto(p, "unlock")
    /\ UNCHANGED <<shared, op, data, oldPtr, newMap, newPtr, acc, floor, hist, outer>>

\* defer m.mu.Unlock(), then the return
Unlock(p) ==
    /\ mu = p
    /\ mu' = 0
    /\ Return(p, rv[p], newPtr[p])
    /\ UNCHANGED <<engine, heap, cell, pubs>>

RWMutexMap_Get(p) ==
    /\ engine = "mutex" /\ op[p].name = "Get"
    /\ \/ pc[p] = "load" /\ LoadData(p, "read")
       \/ /\ pc[p] = "read"
          /\ LET r == Lookup(heap[data[p]], op[p].key)
             IN  Finish(p, Ret(r[1], r[2], <<>>))

RWMutexMap_Set(p) ==
    /\ engine = "mutex" /\ op[p].name = "Set"
    /\ \/ pc[p] = "lock" /\ Lock(p, "load")
       \/ pc[p] = "load" /\ LoadOldPtr(p, "copy")
       \/ /\ pc[p] = "copy"
          /\ Build(p, MapPut(copyMap(heap[oldPtr[p]]), op[p].key, op[p].value), "store")
       \/ pc[p] = "store" /\ Store(p, newMap[p], Void)
       \/ pc[p] = "unlock" /\ Unlock(p)

RWMutexMap_Delete(p) ==
    /\ engine = "mutex" /\ op[p].name = "Delete"
    /\ \/ pc[p] = "lock" /\ Lock(p, "load")
       \/ pc[p] = "load" /\ LoadOldPtr(p, "copy")
       \/ /\ pc[p] = "copy"
          /\ IF ~Lookup(heap[oldPtr[p]], op[p].key)[2]
             THEN Defer(p, Void)
             ELSE Build(p, MapDelete(copyMap(heap[oldPtr[p]]), op[p].key), "store")
       \/ pc[p] = "store" /\ Store(p, newMap[p], Void)
       \/ pc[p] = "unlock" /\ Unlock(p)

RWMutexMap_Len(p) ==
    /\ engine = "mutex" /\ op[p].name = "Len"
    /\ \/ pc[p] = "load" /\ LoadData(p, "read")
       \/ /\ pc[p] = "read"
          /\ Finish(p, Ret(Cardinality(DOMAIN heap[data[p]]), TRUE, <<>>))

RWMutexMap_Has(p) ==
    /\ engine = "mutex" /\ op[p].name = "Has"
    /\ \/ pc[p] = "load" /\ LoadData(p, "read")
       \/ /\ pc[p] = "read"
          /\ Finish(p, Ret(Zero, Lookup(heap[data[p]], op[p].key)[2], <<>>))

RWMutexMap_Clear(p) ==
    /\ engine = "mutex" /\ op[p].name = "Clear"
    /\ \/ pc[p] = "lock" /\ Lock(p, "store")
       \/ pc[p] = "store" /\ Store(p, EmptyMap, Void)
       \/ pc[p] = "unlock" /\ Unlock(p)

\* Faulty variant of RWMutexMap_Range: the iteration runs under the lock.
RWMutexMap_RangeLocked(p) ==
    /\ engine = "mutex" /\ op[p].name = "Range"
    /\ \/ /\ pc[p] = "load"
          /\ mu = 0
          /\ mu' = p
          /\ data' = [data EXCEPT ![p] = load]
          /\ Goto(p, "iter")
          /\ UNCHANGED <<engine, heap, cell, pubs, op, oldPtr, newMap, newPtr, acc, rv, floor, hist, outer>>
       \/ pc[p] = "iter" /\ RangeIter(p)

RWMutexMap_Range(p) ==
    /\ engine = "mutex" /\ op[p].name = "Range"
    /\ \/ pc[p] = "load" /\ LoadData(p, "iter")
       \/ pc[p] = "iter" /\ RangeIter(p)

RWMutexMap_Keys(p) ==
    /\ engine = "mutex" /\ op[p].name = "Keys"
    /\ \/ pc[p] = "load" /\ LoadData(p, "iter")
       \/ pc[p] = "iter" /\ CollectIter(p)

RWMutexMap_Values(p) ==
    /\ engine = "mutex" /\ op[p].name = "Values"
    /\ \/ pc[p] = "load" /\ LoadData(p, "iter")
       \/ pc[p] = "iter" /\ CollectIter(p)

\* Faulty variant of RWMutexMap_GetOrSet: no second check under the lock.
RWMutexMap_GetOrSetNoRecheck(p) ==
    /\ engine = "mutex" /\ op[p].name = "GetOrSet"
    /\ \/ pc[p] = "fast" /\ LoadData(p, "check")
       \/ /\ pc[p] = "check"
          /\ LET r == Lookup(heap[data[p]], op[p].key)
             IN  IF r[2]
                 THEN Finish(p, Ret(r[1], TRUE, <<>>))
                 ELSE /\ Goto(p, "lock")
                      /\ UNCHANGED <<shared, op, data, oldPtr, newMap, newPtr, acc, rv, floor, hist, outer>>
       \/ pc[p] = "lock" /\ Lock(p, "load")
       \/ pc[p] = "load" /\ LoadOldPtr(p, "copy")
       \/ /\ pc[p] = "copy"
          /\ Build(p, MapPut(copyMap(heap[oldPtr[p]]), op[p].key, op[p].value), "store")
       \/ pc[p] = "store" /\ Store(p, newMap[p], Ret(op[p].value, FALSE, <<>>))
       \/ pc[p] = "unlock" /\ Unlock(p)
RWMutexMap_GetOrSet(p) ==
    /\ engine = "mutex" /\ op[p].name = "GetOrSet"
    /\ \/ pc[p] = "fast" /\ LoadData(p, "check")
       \/ /\ pc[p] = "check"
          /\ LET r == Lookup(heap[data[p]], op[p].key)
             IN  IF r[2]
                 THEN Finish(p, Ret(r[1], TRUE, <<>>))
                 ELSE /\ Goto(p, "lock")
                      /\ UNCHANGED <<shared, op, data, oldPtr, newMap, newPtr, acc, rv, floor, hist, outer>>
       \/ pc[p] = "lock" /\ Lock(p, "load")
       \/ pc[p] = "load" /\ LoadOldPtr(p, "copy")
       \/ /\ pc[p] = "copy"
          /\ LET r == Lookup(heap[oldPtr[p]], op[p].key)
             IN  IF r[2]
                 THEN Defer(p, Ret(r[1], TRUE, <<>>))
                 ELSE Build(p, MapPut(copyMap(heap[oldPtr[p]]), op[p].key, op[p].value), "store")
       \/ pc[p] = "store" /\ Store(p, newMap[p], Ret(op[p].value, FALSE, <<>>))
       \/ pc[p] = "unlock" /\ Unlock(p)

RWMutexMap_SetIfAbsent(p) ==
    /\ engine = "mutex" /\ op[p].name = "SetIfAbsent"
    /\ \/ pc[p] = "lock" /\ Lock(p, "load")
       \/ pc[p] = "load" /\ LoadOldPtr(p, "copy")
       \/ /\ pc[p] = "copy"
          /\ IF Lookup(heap[oldPtr[p]], op[p].key)[2]
             THEN Defer(p, Ret(Zero, FALSE, <<>>))
             ELSE Build(p, MapPut(copyMap(heap[oldPtr[p]]), op[p].key, op[p].value), "store")
       \/ pc[p] = "store" /\ Store(p, newMap[p], Ret(Zero, TRUE, <<>>))
       \/ pc[p] = "unlock" /\ Unlock(p)

RWMutexMap_CompareAndSwap(p) ==
    /\ engine = "mutex" /\ op[p].name = "CompareAndSwap"
    /\ \/ pc[p] = "lock" /\ Lock(p, "load")
       \/ pc[p] = "load" /\ LoadOldPtr(p, "copy")
       \/ /\ pc[p] = "copy"
          /\ LET r == Lookup(heap[oldPtr[p]], op[p].key)
             IN  IF ~r[2] \/ ~compare(r[1], op[p].old)
                 THEN Defer(p, Ret(Zero, FALSE, <<>>))
                 ELSE Build(p, MapPut(copyMap(heap[oldPtr[p]]), op[p].key, op[p].value), "store")
       \/ pc[p] = "store" /\ Store(p, newMap[p], Ret(Zero, TRUE, <<>>))
       \/ pc[p] = "unlock" /\ Unlock(p)

RWMutexMap_Step(p) ==
    \/ RWMutexMap_Get(p) \/ RWMutexMap_Set(p) \/ RWMutexMap_Delete(p) \/ RWMutexMap_Len(p)
    \/ RWMutexMap_Has(p) \/ RWMutexMap_Clear(p) \/ RWMutexMap_Range(p) \/ RWMutexMap_Keys(p)
    \/ RWMutexMap_Values(p) \/ RWMutexMap_GetOrSet(p) \/ RWMutexMap_SetIfAbsent(p)
    \/ RWMutexMap_CompareAndSwap(p)

\* ---- the concurrent program: any goroutine calls any method ----
AnyCall(p) == \E c \in AllCalls : NumCalls < MaxCalls /\ Call(p, c)

Next == \E p \in Procs : AnyCall(p) \/ CASMap_Step(p) \/ RWMutexMap_Step(p)

Spec == Init /\ [][Next]_vars

\* ---- what a caller running alone would be answered now ----
\* Get(k): load, then the lookup
Get(k) == Lookup(heap[load], k)

\* Len(): load, then len(data)
LenNow == Cardinality(DOMAIN heap[load])

\* Has(k): load, then the lookup
Has(k) == Lookup(heap[load], k)[2]

\* ---- the calls made so far ----
Returned(p) == {hist[p][i] : i \in 1..Len(hist[p])}
AllReturned == UNION {Returned(p) : p \in Procs}
Made == ({op[q] : q \in Procs} \ {NoCall}) \cup {e.call : e \in AllReturned}
AllIdle == \A p \in Procs : pc[p] = "idle"

\* ---- N goroutines race GetOrSet on one key of the empty map ----
GetOrSetRace(p) ==
    \E c \in GetOrSetCalls :
        /\ hist[p] = <<>>
        /\ \A d \in Made : d.key = c.key
        /\ Call(p, c)

NextGetOrSet == \E p \in Procs : GetOrSetRace(p) \/ CASMap_GetOrSet(p) \/ RWMutexMap_GetOrSet(p)

SpecGetOrSet == Init /\ [][NextGetOrSet]_vars

Inserted(p) == hist[p] # <<>> /\ ~hist[p][1].ret.ok

\* C1: exactly-once insert. Of the GetOrSet(k, v_p) calls racing on an absent
\* key, never more than one returns existed = false; once all have returned,
\* exactly one did and it returned its own value, every other call returned
\* (that value, true), and Get(k) answers (that value, true).
ExactlyOnceInsert ==
    /\ Cardinality({p \in Procs : Inserted(p)}) <= 1
    /\ (AllIdle /\ \A p \in Procs : hist[p] # <<>>) =>
          \E w \in Procs :
              /\ Inserted(w)
              /\ hist[w][1].ret = Ret(hist[w][1].call.value, FALSE, <<>>)
              /\ \A p \in Procs \ {w} :
                    hist[p][1].ret = Ret(hist[w][1].call.value, TRUE, <<>>)
              /\ Get(hist[w][1].call.key) = <<hist[w][1].call.value, TRUE>>

\* All calls returned, and a loser that offered another value got the winner's.
ExactlyOnceInsertWitness ==
    /\ AllIdle
    /\ \A p \in Procs : hist[p] # <<>>
    /\ \E w \in Procs, p \in Procs :
          /\ Inserted(w) /\ ~Inserted(p)
          /\ hist[p][1].call.value # hist[w][1].call.value
          /\ hist[p][1].ret.v = hist[w][1].call.value

\* ---- goroutines Set pairwise distinct keys, and Get any key meanwhile ----
SetDistinct(p) ==
    \E c \in SetCalls :
        /\ Len(hist[p]) < MaxCalls
        /\ \A d \in Made : d.name = "Set" => d.key # c.key
        /\ Call(p, c)

GetAny(p) == \E c \in GetCalls : Len(hist[p]) < MaxCalls /\ Call(p, c)

NextSetDistinct ==
    \E p \in Procs :
        \/ SetDistinct(p) \/ GetAny(p)
        \/ CASMap_Set(p) \/ CASMap_Get(p)
        \/ RWMutexMap_Set(p) \/ RWMutexMap_Get(p)

SpecSetDistinct == Init /\ [][NextSetDistinct]_vars

SetsReturned == {e \in AllReturned : e.call.name = "Set"}

\* C2: no lost update. Whenever no Set on the pairwise distinct keys is still
\* running, Len() is the number of keys written and Get(i) answers (v_i, true)
\* for every Set(i, v_i) that returned.
NoLostUpdate ==
    (\A p \in Procs : op[p].name # "Set") =>
        /\ LenNow = Cardinality({e.call.key : e \in SetsReturned})
        /\ \A e \in SetsReturned : Get(e.call.key) = <<e.call.value, TRUE>>

\* Two goroutines have each written a key of their own and both keys are there.
NoLostUpdateWitness ==
    /\ AllIdle
    /\ \E p \in Procs, q \in Procs :
          /\ p # q
          /\ \E e \in Returned(p), f \in Returned(q) :
                e.call.name = "Set" /\ f.call.name = "Set"
    /\ LenNow >= 2
    /\ \E e \in AllReturned : e.call.name = "Get" /\ e.ret.ok

\* ---- two goroutines Set the same key; Get once both have returned ----
SetSame(p) ==
    \E c \in SetCalls :
        /\ hist[p] = <<>>
        /\ NumMade({"Set"}) < 2
        /\ \A d \in Made : d.key = c.key
        /\ Call(p, c)

GetAfter(p) ==
    \E c \in GetCalls :
        /\ Cardinality(SetsReturned) = 2
        /\ Len(hist[p]) < MaxCalls
        /\ \A d \in Made : d.key = c.key
        /\ Call(p, c)

NextSetSame ==
    \E p \in Procs :
        \/ SetSame(p) \/ GetAfter(p)
        \/ CASMap_Set(p) \/ CASMap_Get(p)
        \/ RWMutexMap_Set(p) \/ RWMutexMap_Get(p)

SpecSetSame == Init /\ [][NextSetSame]_vars

\* The Set that was published last.
LaterSet == CHOOSE e \in SetsReturned : \A f \in SetsReturned : f.pub <= e.pub

\* C3: after Set(k, v1) and Set(k, v2) have both returned, every Get(k)
\* answers (v, true) with v the value of the Set published later.
LastPublishedSetWins ==
    \A e \in AllReturned :
        e.call.name = "Get" => e.ret = Ret(LaterSet.call.value, TRUE, <<>>)

\* Two readers have been answered, and the Sets wrote different values.
LastPublishedSetWinsWitness ==
    /\ \E e \in SetsReturned, f \in SetsReturned : e.call.value # f.call.value
    /\ \A p \in Procs : \E e \in Returned(p) : e.call.name = "Get"

\* ---- a write returns; then a read runs while a second write runs ----
WriteCalls == {c \in AllCalls : c.name \in WriteNames}
ReadCalls == {c \in AllCalls : c.name \in ReadNames}
UsedKeys == {d.key : d \in Made} \ {0}

\* The first write runs alone; the later ones run beside the read.
WriteCall(p) ==
    \E k \in Keys :
        /\ UsedKeys \subseteq {k}
        /\ NumMade(WriteNames) < MaxWrites
        /\ NumMade(WriteNames) = 0 \/ \E e \in AllReturned : e.call.name \in WriteNames
        /\ \E c \in WriteCalls : c.key \in {0, k} /\ Call(p, c)

ReadCall(p) ==
    \E k \in Keys :
        /\ UsedKeys \subseteq {k}
        /\ NumMade(ReadNames) < MaxReads
        /\ \E e \in AllReturned : e.call.name \in WriteNames
        /\ \E c \in ReadCalls : c.key \in {0, k} /\ Call(p, c)

NextReadWrite ==
    \E p \in Procs : WriteCall(p) \/ ReadCall(p) \/ CASMap_Step(p) \/ RWMutexMap_Step(p)

SpecReadWrite == Init /\ [][NextReadWrite]_vars

\* C4: a read that began after a write returned has loaded the address that
\* write published or one published later (addresses grow in publication order).
ReadSeesReturnedWrites ==
    \A p \in Procs :
        (op[p].name \in ReadNames /\ data[p] # 0) => data[p] >= floor[p]

\* A read began after a write had published and returned, and loaded a
\* snapshot that another write published after the read began.
ReadSeesReturnedWritesWitness ==
    \E p \in Procs :
        /\ op[p].name \in ReadNames
        /\ floor[p] >= 2
        /\ data[p] > floor[p]

\* ---- one goroutine fills the map, then ranges over it while the others write ----
Fill(p) ==
    \E c \in SetCalls :
        /\ p = 1
        /\ Made \subseteq SetCalls
        /\ \A d \in Made : d.key # c.key
        /\ Call(p, c)

RangeCall(p) ==
    /\ p = 1
    /\ NumMade({"Range"}) = 0
    /\ Call(p, MkCall("Range", 0, Zero, Zero))

Disturb(p) ==
    \E c \in SetCalls \cup DeleteCalls \cup {MkCall("Clear", 0, Zero, Zero)} :
        /\ p # 1
        /\ hist[p] = <<>>
        /\ NumMade({"Range"}) = 1
        /\ Call(p, c)

NextRange ==
    \E p \in Procs :
        \/ Fill(p) \/ RangeCall(p) \/ Disturb(p)
        \/ CASMap_Range(p) \/ CASMap_Set(p) \/ CASMap_Delete(p) \/ CASMap_Clear(p)
        \/ RWMutexMap_Range(p) \/ RWMutexMap_Set(p) \/ RWMutexMap_Delete(p)
        \/ RWMutexMap_Clear(p)

SpecRange == Init /\ [][NextRange]_vars

Entries(m) == {<<k, m[k]>> : k \in DOMAIN m}
SeqSet(s) == {s[i] : i \in 1..Len(s)}
NoRepeat(s) == \A i \in 1..Len(s), j \in 1..Len(s) : s[i] = s[j] => i = j

\* C5: snapshot isolation of Range. What Range has handed to its visitor is
\* always a repetition-free part of the entries of the snapshot it loaded,
\* and a Range whose visitor always answered continue has visited exactly
\* the entries of that snapshot, each once, whatever was published meanwhile.
RangeSnapshotIsolation ==
    /\ \A p \in Procs :
          (op[p].name = "Range" /\ pc[p] = "iter") =>
              /\ SeqSet(acc[p]) \subseteq Entries(heap[data[p]])
              /\ NoRepeat(acc[p])
    /\ \A e \in AllReturned :
          (e.call.name = "Range" /\ e.ret.ok) =>
              /\ SeqSet(e.ret.seq) = Entries(heap[e.obs])
              /\ Len(e.ret.seq) = Cardinality(DOMAIN heap[e.obs])

\* Range has visited both entries of the snapshot it loaded although a write
\* published meanwhile has removed or changed one of them.
RangeSnapshotIsolationWitness ==
    \E p \in Procs :
        /\ op[p].name = "Range" /\ pc[p] = "iter"
        /\ Len(acc[p]) >= 2
        /\ Unvisited(p) = {}
        /\ cell > data[p]
        /\ \E i \in 1..Len(acc[p]) : Lookup(heap[cell], acc[p][i][1]) # <<acc[p][i][2], TRUE>>

\* ---- a single caller, no concurrency ----
SeqNames == {"Get", "Set", "Delete", "Len", "Has", "Clear", "GetOrSet", "SetIfAbsent", "CompareAndSwap"}
SeqCalls == {c \in AllCalls : c.name \in SeqNames}

SeqCall(p) == \E c \in SeqCalls : p = 1 /\ Len(hist[p]) < MaxSeq /\ Call(p, c)

NextSeq ==
    \E p \in Procs :
        \/ SeqCall(p)
        \/ CASMap_Get(p) \/ CASMap_Set(p) \/ CASMap_Delete(p) \/ CASMap_Len(p)
        \/ CASMap_Has(p) \/ CASMap_Clear(p) \/ CASMap_GetOrSet(p)
        \/ CASMap_SetIfAbsent(p) \/ CASMap_CompareAndSwap(p)
        \/ RWMutexMap_Get(p) \/ RWMutexMap_Set(p) \/ RWMutexMap_Delete(p)
        \/ RWMutexMap_Len(p) \/ RWMutexMap_Has(p) \/ RWMutexMap_Clear(p)
        \/ RWMutexMap_GetOrSet(p) \/ RWMutexMap_SetIfAbsent(p)
        \/ RWMutexMap_CompareAndSwap(p)

SpecSeq == Init /\ [][NextSeq]_vars

\* The plain, non-concurrent map the engines are compared with (the reference
\* of the comparison; it uses none of the operators of the engines).
PlainPut(m, k, v) == [x \in (DOMAIN m) \cup {k} |-> IF x = k THEN v ELSE m[x]]

PlainApply(m, c) ==
    CASE c.name = "Set" -> PlainPut(m, c.key, c.value)
      [] c.name = "Delete" -> [x \in (DOMAIN m) \ {c.key} |-> m[x]]
      [] c.name = "Clear" -> [x \in {} |-> Zero]
      [] c.name \in {"GetOrSet", "SetIfAbsent"} ->
            IF c.key \in DOMAIN m THEN m ELSE PlainPut(m, c.key, c.value)
      [] c.name = "CompareAndSwap" ->
            IF c.key \in DOMAIN m /\ m[c.key] = c.old THEN PlainPut(m, c.key, c.value) ELSE m
      [] OTHER -> m

PlainResult(m, c) ==
    CASE c.name = "Get" ->
            IF c.key \in DOMAIN m THEN Ret(m[c.key], TRUE, <<>>) ELSE Ret(Zero, FALSE, <<>>)
      [] c.name = "Len" -> Ret(Cardinality(DOMAIN m), TRUE, <<>>)
      [] c.name = "Has" -> Ret(Zero, c.key \in DOMAIN m, <<>>)
      [] c.name = "GetOrSet" ->
            IF c.key \in DOMAIN m THEN Ret(m[c.key], TRUE, <<>>) ELSE Ret(c.value, FALSE, <<>>)
      [] c.name = "SetIfAbsent" -> Ret(Zero, c.key \notin DOMAIN m, <<>>)
      [] c.name = "CompareAndSwap" ->
            Ret(Zero, c.key \in DOMAIN m /\ m[c.key] = c.old, <<>>)
      [] OTHER -> Ret(Zero, TRUE, <<>>)

RECURSIVE PlainRun(_, _)
PlainRun(h, n) ==
    IF n = 0 THEN [x \in {} |-> Zero] ELSE PlainApply(PlainRun(h, n - 1), h[n].call)

\* C6: sequential equivalence. Every call of a single caller returns what the
\* plain map returns for the same sequence of calls, and between calls the
\* current snapshot of either engine holds what the plain map holds.
SequentialEquivalence ==
    /\ \A i \in 1..Len(hist[1]) :
          hist[1][i].ret = PlainResult(PlainRun(hist[1], i - 1), hist[1][i].call)
    /\ pc[1] = "idle" => heap[cell] = PlainRun(hist[1], Len(hist[1]))

\* Three calls have returned, the last one a read of a map two writes built.
SequentialEquivalenceWitness ==
    /\ pc[1] = "idle"
    /\ Len(hist[1]) = MaxSeq
    /\ cell >= 3
    /\ hist[1][MaxSeq].call.name \in {"Get", "Len", "Has"}
    /\ DOMAIN heap[cell] # {}

\* The snapshot current before, and after, the i-th call of the single caller.
Before(i) == heap[Max({1} \cup {hist[1][j].pub : j \in 1..(i - 1)})]
After(i) == heap[Max({1} \cup {hist[1][j].pub : j \in 1..i})]
SameElsewhere(i, k) ==
    /\ (DOMAIN After(i)) \ {k} = (DOMAIN Before(i)) \ {k}
    /\ \A x \in (DOMAIN Before(i)) \ {k} : After(i)[x] = Before(i)[x]

\* C7: CompareAndSwap(k, old, new) of a caller running alone returns false and
\* publishes nothing when k is absent or holds a value other than old; it
\* returns true when k holds old, and then k holds new, Get(k) answers
\* (new, true) and every other entry is as before.
CompareAndSwapTable ==
    \A i \in 1..Len(hist[1]) :
        LET e == hist[1][i]
            k == e.call.key
        IN  e.call.name = "CompareAndSwap" =>
              IF k \in DOMAIN Before(i) /\ Before(i)[k] = e.call.old
              THEN /\ e.ret.ok
                   /\ k \in DOMAIN After(i) /\ After(i)[k] = e.call.value
                   /\ SameElsewhere(i, k)
                   /\ (i = Len(hist[1]) /\ pc[1] = "idle") => Get(k) = <<e.call.value, TRUE>>
              ELSE /\ ~e.ret.ok
                   /\ e.pub = 0
                   /\ After(i) = Before(i)

\* Set(k, a); CompareAndSwap(k, a, b) -> true; CompareAndSwap(k, a, a) -> false
\* with b # a: the second is refused although its new value equals its old one.
CompareAndSwapTableWitness ==
    /\ Len(hist[1]) = 3 /\ pc[1] = "idle"
    /\ hist[1][2].call.name = "CompareAndSwap" /\ hist[1][2].ret.ok
    /\ hist[1][3].call.name = "CompareAndSwap" /\ ~hist[1][3].ret.ok
    /\ hist[1][3].call.key = hist[1][2].call.key
    /\ hist[1][3].call.value = hist[1][3].call.old
    /\ hist[1][2].call.value # hist[1][2].call.old

\* C9: SetIfAbsent(k, v) of a caller running alone returns true and installs
\* k -> v when k is absent; when k is present it returns false, publishes
\* nothing, and the value at k and every other entry stay as they were.
SetIfAbsentTable ==
    \A i \in 1..Len(hist[1]) :
        LET e == hist[1][i]
            k == e.call.key
        IN  e.call.name = "SetIfAbsent" =>
              IF k \notin DOMAIN Before(i)
              THEN /\ e.ret.ok
                   /\ k \in DOMAIN After(i) /\ After(i)[k] = e.call.value
                   /\ SameElsewhere(i, k)
              ELSE /\ ~e.ret.ok
                   /\ e.pub = 0
                   /\ After(i) = Before(i)

\* SetIfAbsent(k, v) -> true; SetIfAbsent(k, w) -> false with w # v; k holds v.
SetIfAbsentTableWitness ==
    /\ Len(hist[1]) >= 2 /\ pc[1] = "idle"
    /\ hist[1][1].call.name = "SetIfAbsent" /\ hist[1][1].ret.ok
    /\ hist[1][2].call.name = "SetIfAbsent" /\ ~hist[1][2].ret.ok
    /\ hist[1][2].call.key = hist[1][1].call.key
    /\ hist[1][2].call.value # hist[1][1].call.value
    /\ heap[cell][hist[1][1].call.key] = hist[1][1].call.value

\* ---- k holds a; then N goroutines race CompareAndSwap(k, a, b_p), b_p # a ----
SeedDone == hist[1] # <<>>
OtherWrites == {"Set", "Delete", "Clear"}

Seed(p) == \E c \in SetCalls : p = 1 /\ Made = {} /\ Call(p, c)

SwapRace(p) ==
    \E c \in CompareAndSwapCalls :
        /\ SeedDone
        /\ \A i \in 1..Len(hist[p]) : hist[p][i].call.name # "CompareAndSwap"
        /\ c.key = hist[1][1].call.key
        /\ c.old = hist[1][1].call.value
        /\ c.value # c.old
        /\ Call(p, c)

\* At most one more writer, of another method, on the same key.
Interfere(p) ==
    \E c \in SetCalls \cup DeleteCalls \cup {MkCall("Clear", 0, Zero, Zero)} :
        /\ SeedDone
        /\ NumMade(OtherWrites) < 2
        /\ c.key \in {0, hist[1][1].call.key}
        /\ Call(p, c)

NextSwapRace ==
    \E p \in Procs :
        \/ Seed(p) \/ SwapRace(p) \/ Interfere(p)
        \/ CASMap_Set(p) \/ CASMap_Delete(p) \/ CASMap_Clear(p)
        \/ CASMap_CompareAndSwap(p)
        \/ RWMutexMap_Set(p) \/ RWMutexMap_Delete(p) \/ RWMutexMap_Clear(p)
        \/ RWMutexMap_CompareAndSwap(p)

SpecSwapRace == Init /\ [][NextSwapRace]_vars

Swaps == {x \in HistIdx : hist[x[1]][x[2]].call.name = "CompareAndSwap"}
Swapped == {x \in Swaps : hist[x[1]][x[2]].ret.ok}

\* C8: a CompareAndSwap(k, old, new) returns true only having published over
\* a snapshot that maps k to old, whatever the other writers do; so, with no
\* other writer, of the racing CompareAndSwap(k, a, b_p) at most one returns
\* true, and once all have returned exactly one did and k holds its new value.
CompareAndSwapAtomic ==
    /\ \A x \in Swapped :
          LET e == hist[x[1]][x[2]]
          IN  /\ e.pub \in 2..Len(heap)
              /\ pubs[e.pub].proc = x[1]
              /\ e.call.key \in DOMAIN heap[pubs[e.pub].prev]
              /\ heap[pubs[e.pub].prev][e.call.key] = e.call.old
    /\ NumMade(OtherWrites) = 1 =>
          /\ Cardinality(Swapped) <= 1
          /\ (AllIdle /\ Cardinality(Swaps) = NumProcs) =>
                \E x \in Swapped :
                    Get(hist[x[1]][x[2]].call.key) = <<hist[x[1]][x[2]].call.value, TRUE>>

\* Every goroutine has returned; the loser offered another new value than the winner.
CompareAndSwapAtomicWitness ==
    /\ AllIdle
    /\ NumMade(OtherWrites) = 1
    /\ Cardinality(Swaps) = NumProcs
    /\ \E x \in Swapped, y \in Swaps \ Swapped :
          hist[y[1]][y[2]].call.value # hist[x[1]][x[2]].call.value

\* ---- N goroutines race SetIfAbsent on one key of the empty map ----
SetIfAbsentRace(p) ==
    \E c \in SetIfAbsentCalls :
        /\ hist[p] = <<>>
        /\ \A d \in Made : d.key = c.key
        /\ Call(p, c)

NextSetIfAbsent ==
    \E p \in Procs : SetIfAbsentRace(p) \/ CASMap_SetIfAbsent(p) \/ RWMutexMap_SetIfAbsent(p)

SpecSetIfAbsent == Init /\ [][NextSetIfAbsent]_vars

Installed(p) == hist[p] # <<>> /\ hist[p][1].ret.ok

\* C10: of the SetIfAbsent(k, v_p) calls racing on an absent key never more
\* than one returns true; once all have returned exactly one did, the others
\* returned false, and k holds the value passed by the one that returned true.
ExactlyOneSetIfAbsent ==
    /\ Cardinality({p \in Procs : Installed(p)}) <= 1
    /\ (AllIdle /\ \A p \in Procs : hist[p] # <<>>) =>
          \E w \in Procs :
              /\ Installed(w)
              /\ \A p \in Procs \ {w} : ~hist[p][1].ret.ok
              /\ Get(hist[w][1].call.key) = <<hist[w][1].call.value, TRUE>>

\* All have returned; a loser passed another value than the one now stored.
ExactlyOneSetIfAbsentWitness ==
    /\ AllIdle
    /\ \A p \in Procs : hist[p] # <<>>
    /\ \E w \in Procs, p \in Procs :
          /\ Installed(w) /\ ~Installed(p)
          /\ hist[p][1].call.value # hist[w][1].call.value

\* ---- Delete of a key the loaded snapshot does not hold ----
\* The publications made so far by calls of the method n.
PubsOf(n) == {a \in 2..Len(pubs) : pubs[a].call.name = n}

\* The calls of the method n that have published: returned, or about to unlock.
Publishers(n) ==
    Cardinality({x \in HistIdx : hist[x[1]][x[2]].call.name = n /\ hist[x[1]][x[2]].pub # 0})
        + Cardinality({q \in Procs : op[q].name = n /\ newPtr[q] # 0})

\* C11: no-op delete. In both engines a Delete holds a private copy (is at
\* its CAS or its store) only when the snapshot it loaded holds the key; a
\* Delete whose loaded snapshot lacks the key returns having published
\* nothing, and every publication of a Delete belongs to a Delete that found
\* its key, so the cell is left pointing where it pointed.
NoOpDelete ==
    /\ \A p \in Procs :
          op[p].name = "Delete" =>
              /\ pc[p] \in {"cas", "store"} => op[p].key \in DOMAIN heap[oldPtr[p]]
              /\ (pc[p] = "unlock" /\ op[p].key \notin DOMAIN heap[oldPtr[p]]) =>
                    newPtr[p] = 0 /\ newMap[p] = EmptyMap /\ cell >= oldPtr[p]
    /\ \A e \in AllReturned :
          (e.call.name = "Delete" /\ e.call.key \notin DOMAIN heap[e.obs]) => e.pub = 0
    /\ Cardinality(PubsOf("Delete")) = Publishers("Delete")

\* A Delete of an absent key has returned from a map that holds another key,
\* and the cell still points to the snapshot that Delete loaded.
NoOpDeleteWitness ==
    /\ AllIdle
    /\ \E e \in AllReturned :
          /\ e.call.name = "Delete"
          /\ e.call.key \notin DOMAIN heap[e.obs]
          /\ DOMAIN heap[e.obs] # {}
          /\ e.pub = 0
          /\ cell = e.obs
          /\ LenNow = 1

\* C12: GetOrSet(k, v) of a caller running alone. On an absent key it returns
\* (v, false), k then holds v, Len() has grown by one and the other entries
\* are as before; on a present key it returns (the value held, true),
\* publishes nothing and leaves the map as it was.
GetOrSetTable ==
    \A i \in 1..Len(hist[1]) :
        LET e == hist[1][i]
            k == e.call.key
        IN  e.call.name = "GetOrSet" =>
              IF k \notin DOMAIN Before(i)
              THEN /\ e.ret = Ret(e.call.value, FALSE, <<>>)
                   /\ k \in DOMAIN After(i) /\ After(i)[k] = e.call.value
                   /\ Cardinality(DOMAIN After(i)) = Cardinality(DOMAIN Before(i)) + 1
                   /\ SameElsewhere(i, k)
                   /\ (i = Len(hist[1]) /\ pc[1] = "idle") =>
                         /\ Get(k) = <<e.call.value, TRUE>>
                         /\ LenNow = Cardinality(DOMAIN Before(i)) + 1
              ELSE /\ e.ret = Ret(Before(i)[k], TRUE, <<>>)
                   /\ e.pub = 0
                   /\ After(i) = Before(i)

\* GetOrSet(k, a) -> (a, false); GetOrSet(k, b) -> (a, true) with b # a; then
\* Get(k) -> (a, true).
GetOrSetTableWitness ==
    /\ Len(hist[1]) = 3 /\ pc[1] = "idle"
    /\ hist[1][1].call.name = "GetOrSet" /\ ~hist[1][1].ret.ok
    /\ hist[1][2].call.name = "GetOrSet" /\ hist[1][2].ret.ok
    /\ hist[1][2].call.key = hist[1][1].call.key
    /\ hist[1][2].call.value # hist[1][1].call.value
    /\ hist[1][2].ret.v = hist[1][1].call.value
    /\ hist[1][3].call = MkCall("Get", hist[1][1].call.key, Zero, Zero)
    /\ hist[1][3].ret = Ret(hist[1][1].call.value, TRUE, <<>>)
    /\ LenNow = 1

\* C13: Clear installs a fresh empty snapshot. Every Clear that returned has
\* stored one empty map, and while that map is the current one Len() is 0
\* and Has(k) is false for every k, whatever the map held before; in the
\* CAS engine a Clear in progress is at its store, that store can always be
\* taken, and the Clears have stored exactly once each.
ClearInstallsEmpty ==
    /\ \A x \in HistIdx :
          LET e == hist[x[1]][x[2]]
          IN  e.call.name = "Clear" =>
                /\ e.pub \in 2..Len(heap)
                /\ pubs[e.pub].proc = x[1] /\ pubs[e.pub].call.name = "Clear"
                /\ DOMAIN heap[e.pub] = {}
                /\ cell = e.pub => (LenNow = 0 /\ \A k \in Keys : ~Has(k))
    /\ engine = "cas" =>
          /\ \A p \in Procs :
                op[p].name = "Clear" => (pc[p] = "store" /\ ENABLED CASMap_Clear(p))
          /\ Cardinality(PubsOf("Clear")) =
                Cardinality({x \in HistIdx : hist[x[1]][x[2]].call.name = "Clear"})

\* CAS engine: a Clear has returned having emptied a map that held a key,
\* while another writer was between its load and its CAS.
ClearInstallsEmptyWitness ==
    /\ engine = "cas"
    /\ \E e \in AllReturned, q \in Procs :
          /\ e.call.name = "Clear"
          /\ e.pub # 0
          /\ DOMAIN heap[pubs[e.pub].prev] # {}
          /\ cell = e.pub /\ LenNow = 0
          /\ pc[q] = "cas" /\ oldPtr[q] < e.pub

\* ---- one Set returns; then every goroutine makes one more call, of any method ----
SeededCall(p) ==
    \E c \in AllCalls :
        /\ SeedDone
        /\ Len(hist[p]) < (IF p = 1 THEN 2 ELSE 1)
        /\ Call(p, c)

NextSeeded ==
    \E p \in Procs : Seed(p) \/ SeededCall(p) \/ CASMap_Step(p) \/ RWMutexMap_Step(p)

SpecSeeded == Init /\ [][NextSeeded]_vars

\* The next step of the call goroutine p is executing.
Step(p) == CASMap_Step(p) \/ RWMutexMap_Step(p)

\* The goroutine holding the writer lock of the RWMutexMap is inside a write.
MidWrite(q) == engine = "mutex" /\ mu = q /\ pc[q] \in {"load", "copy", "store"}

\* C14: reads never block on writers. Get, Has, Len, Range, Keys and Values
\* never hold or wait for the lock and their next step can always be taken,
\* also while a writer holds the lock; the same holds for the fast path of
\* GetOrSet, which goes on to the lock only when the snapshot it loaded lacks
\* the key. The lock is held by writes only, and a write that cannot take
\* its next step is at Lock() of the RWMutexMap while another write holds it.
ReadsNeverBlock ==
    /\ \A p \in Procs :
          op[p].name \in ReadNames =>
              /\ pc[p] \in {"load", "read", "iter"}
              /\ mu # p
              /\ ENABLED Step(p)
    /\ \A p \in Procs :
          op[p].name = "GetOrSet" =>
              /\ pc[p] \in {"fast", "check"} => (mu # p /\ ENABLED Step(p))
              /\ (data[p] # 0 /\ op[p].key \in DOMAIN heap[data[p]]) => pc[p] = "check"
    /\ mu # 0 => (op[mu].name \in WriteNames /\ pc[mu] \in {"load", "copy", "store", "unlock"})
    /\ \A p \in Procs :
          (op[p].name \in WriteNames /\ ~ENABLED Step(p)) =>
              (engine = "mutex" /\ pc[p] = "lock" /\ mu # 0 /\ mu # p)

\* A writer holds the lock with its copy built and not yet stored, and beside
\* it a GetOrSet has found its key in the snapshot it loaded while the lock
\* was held (the snapshot is the one the writer is about to replace).
ReadsNeverBlockWitness ==
    \E q \in Procs, p \in Procs :
        /\ MidWrite(q) /\ pc[q] = "store"
        /\ op[p].name = "GetOrSet" /\ pc[p] = "check"
        /\ op[p].key \in DOMAIN heap[data[p]]
        /\ data[p] = cell /\ oldPtr[q] = cell

\* ---- Range with a visitor that calls write methods of the map it ranges over ----
\* f(k, v) is invoked for the next entry and calls a write method of the
\* same map, on the same goroutine: the frame of Range waits for it.
VisitorCalls(p) ==
    /\ op[p].name = "Range" /\ pc[p] = "iter"
    /\ \E c \in WriteCalls, k \in Unvisited(p) :
          /\ outer' = [outer EXCEPT ![p] =
                          [op |-> op[p], data |-> data[p],
                           acc |-> Append(acc[p], <<k, heap[data[p]][k]>>)]]
          /\ op' = [op EXCEPT ![p] = c]
          /\ pc' = [pc EXCEPT ![p] = Entry(c)]
          /\ data' = [data EXCEPT ![p] = 0]
          /\ acc' = [acc EXCEPT ![p] = <<>>]
          /\ floor' = [floor EXCEPT ![p] = RetPub]
          /\ UNCHANGED <<shared, oldPtr, newMap, newPtr, rv, hist>>

\* The write has returned into f, and f returns c to the loop of Range:
\* the next iteration, or the break and the return of Range.
VisitorReturns(p) ==
    /\ outer[p] # NoFrame /\ pc[p] = "idle"
    /\ \E c \in Answers(outer[p].op) :
          IF c
          THEN /\ op' = [op EXCEPT ![p] = outer[p].op]
               /\ pc' = [pc EXCEPT ![p] = "iter"]
               /\ data' = [data EXCEPT ![p] = outer[p].data]
               /\ acc' = [acc EXCEPT ![p] = outer[p].acc]
               /\ UNCHANGED hist
          ELSE /\ hist' = [hist EXCEPT ![p] = Append(@,
                              [call |-> outer[p].op, ret |-> Ret(Zero, FALSE, outer[p].acc),
                               pub |-> 0, obs |-> outer[p].data])]
               /\ UNCHANGED <<op, pc, data, acc>>
    /\ outer' = [outer EXCEPT ![p] = NoFrame]
    /\ UNCHANGED <<shared, oldPtr, newMap, newPtr, rv, floor>>

NextNested ==
    \E p \in Procs :
        \/ outer[p] = NoFrame /\ (Fill(p) \/ RangeCall(p))
        \/ VisitorCalls(p) \/ VisitorReturns(p)
        \/ CASMap_Range(p) \/ CASMap_Set(p) \/ CASMap_Delete(p) \/ CASMap_Clear(p)
        \/ CASMap_GetOrSet(p) \/ CASMap_SetIfAbsent(p) \/ CASMap_CompareAndSwap(p)
        \/ RWMutexMap_Range(p) \/ RWMutexMap_Set(p) \/ RWMutexMap_Delete(p)
        \/ RWMutexMap_Clear(p) \/ RWMutexMap_GetOrSet(p) \/ RWMutexMap_SetIfAbsent(p)
        \/ RWMutexMap_CompareAndSwap(p)

SpecNested == Init /\ [][NextNested]_vars

\* C15: a write called from the visitor of Range. In both engines every step
\* of the nested write can be taken (it finds the lock free: Range holds
\* none), what Range has handed to its visitor stays a repetition-free part
\* of the snapshot Range loaded, and a Range that ran to completion has
\* visited exactly the entries of that snapshot, whatever the nested writes
\* published.
NestedWriteSafe ==
    /\ \A p \in Procs :
          outer[p] # NoFrame =>
              /\ pc[p] # "idle" => ENABLED Step(p)
              /\ pc[p] = "lock" => mu = 0
              /\ pc[p] = "idle" => mu = 0
              /\ SeqSet(outer[p].acc) \subseteq Entries(heap[outer[p].data])
              /\ NoRepeat(outer[p].acc)
    /\ \A p \in Procs :
          (op[p].name = "Range" /\ pc[p] = "iter") =>
              /\ SeqSet(acc[p]) \subseteq Entries(heap[data[p]])
              /\ NoRepeat(acc[p])
    /\ \A e \in AllReturned :
          (e.call.name = "Range" /\ e.ret.ok) =>
              /\ SeqSet(e.ret.seq) = Entries(heap[e.obs])
              /\ Len(e.ret.seq) = Cardinality(DOMAIN heap[e.obs])

\* RWMutexMap: Range has returned having visited both entries of the snapshot
\* it loaded, after its visitor made two writes that took the lock, published,
\* and left the map without one of those entries.
NestedWriteSafeWitness ==
    /\ engine = "mutex" /\ AllIdle /\ mu = 0
    /\ \E e \in Returned(1) :
          /\ e.call.name = "Range" /\ e.ret.ok
          /\ Len(e.ret.seq) = 2
          /\ cell >= e.obs + 2
          /\ \A a \in (e.obs + 1)..cell : pubs[a].proc = 1
          /\ \E i \in 1..2 : e.ret.seq[i][1] \notin DOMAIN heap[cell]

\* ---- what Get, Has and Len return ----
\* The result the method c.name computes from the map m it has loaded.
ReadResult(m, c) ==
    CASE c.name = "Get" -> Ret(Lookup(m, c.key)[1], Lookup(m, c.key)[2], <<>>)
      [] c.name = "Has" -> Ret(Zero, Lookup(m, c.key)[2], <<>>)
      [] c.name = "Len" -> Ret(Cardinality(DOMAIN m), TRUE, <<>>)

\* C16: the cell and the pointers the callers hold name published snapshots
\* only (a copy under construction lives in its writer's newMap and has no
\* address anyone else holds); a read obtains its pointer from the cell, at
\* an instant inside the call; and what Len, Has and Get have returned is
\* the size, presence and value in the one snapshot the call loaded.
SnapshotReads ==
    /\ [](/\ Len(pubs) = Len(heap)
          /\ cell \in 1..Len(heap)
          /\ \A p \in Procs : data[p] \in 0..cell /\ oldPtr[p] \in 0..cell
          /\ \A p \in Procs : (pc[p] = "idle" /\ outer[p] = NoFrame) => data[p] = 0
          /\ \A e \in AllReturned :
                e.call.name \in {"Get", "Has", "Len"} =>
                    /\ e.obs \in 1..cell
                    /\ e.ret = ReadResult(heap[e.obs], e.call))
    /\ [][\A p \in Procs :
             (data'[p] # data[p] /\ data'[p] # 0) =>
                 (data'[p] = cell /\ cell' = cell /\ pc[p] # "idle")]_vars

\* A Get has returned the value of the snapshot it loaded although a write
\* published meanwhile makes the current snapshot answer otherwise.
SnapshotReadsWitness ==
    \E e \in AllReturned :
        /\ e.call.name = "Get" /\ e.ret.ok
        /\ e.obs >= 2 /\ e.obs < cell
        /\ Get(e.call.key) # <<e.ret.v, TRUE>>
        /\ \E q \in Procs : pc[q] = "unlock" /\ newPtr[q] = cell

\* C17: snapshot immutability. No step of any method of either engine
\* changes the content of a map that has been stored into the cell; a step
\* that changes the cell stores the address of one new object, and new
\* objects appear only by being stored.
SnapshotImmutable ==
    [][/\ Len(heap') >= Len(heap)
       /\ \A a \in 1..Len(heap) : heap'[a] = heap[a]
       /\ cell' # cell => (cell' = Len(heap') /\ Len(heap') = Len(heap) + 1)
       /\ Len(heap') # Len(heap) => cell' = Len(heap')]_vars

\* A Range is iterating a snapshot that held an entry when a write replaced
\* it by a snapshot with other content: the entry is still there to visit.
SnapshotImmutableWitness ==
    \E p \in Procs :
        /\ op[p].name = "Range" /\ pc[p] = "iter"
        /\ data[p] >= 2 /\ data[p] < cell
        /\ heap[data[p]] # heap[cell]
        /\ Unvisited(p) # {}
        /\ pubs[cell].prev = data[p]

\* ---- CASMap: k is set; then the goroutines race write methods on k ----
InitCAS == Init /\ engine = "cas"

RaceCall(p) ==
    \E c \in WriteCalls :
        /\ SeedDone
        /\ Len(hist[p]) < (IF p = 1 THEN 2 ELSE 1)
        /\ c.key \in {0, hist[1][1].call.key}
        /\ Call(p, c)

NextCASWrites ==
    \E p \in Procs :
        \/ Seed(p) \/ RaceCall(p)
        \/ CASMap_Set(p) \/ CASMap_Delete(p) \/ CASMap_Clear(p)
        \/ CASMap_GetOrSet(p) \/ CASMap_SetIfAbsent(p) \/ CASMap_CompareAndSwap(p)

\* A goroutine that is inside a call keeps being scheduled.
FairCAS == \A p \in Procs : WF_vars(CASMap_Step(p))

SpecCASWrites == InitCAS /\ [][NextCASWrites]_vars /\ FairCAS

\* C18: with finitely many calls and every running goroutine scheduled again
\* and again, every write of the CASMap that has begun returns; and a
\* goroutine inside a call of the CASMap can always take its next step.
CASWritesTerminate ==
    /\ [](\A p \in Procs : pc[p] # "idle" => ENABLED CASMap_Step(p))
    /\ \A p \in Procs : (pc[p] # "idle") ~> (pc[p] = "idle")

\* A writer is at its CAS holding a pointer the cell no longer holds: the
\* CAS will fail and the loop will run again.
CASWritesTerminateWitness ==
    \E p \in Procs :
        /\ op[p].name \in {"Set", "Delete", "GetOrSet", "SetIfAbsent", "CompareAndSwap"}
        /\ pc[p] = "cas"
        /\ oldPtr[p] # cell
        /\ DOMAIN heap[oldPtr[p]] # {}

\* ---- one goroutine fills the map, then ranges over it with visitors of each kind ----
RangeWith(p) ==
    \E f \in 0..2 :
        /\ p = 1
        /\ NumMade({"Range"}) < MaxRanges
        /\ Call(p, MkCall("Range", 0, f, Zero))

NextVisit ==
    \E p \in Procs :
        \/ Fill(p) \/ RangeWith(p)
        \/ CASMap_Set(p) \/ CASMap_Range(p)
        \/ RWMutexMap_Set(p) \/ RWMutexMap_Range(p)

SpecVisit == Init /\ [][NextVisit]_vars

\* C19: early exit of Range. The visitor is invoked on distinct entries of the
\* loaded snapshot; a Range that was never answered false has visited all of
\* them, one that was answered false returned at that invocation; so a
\* visitor that always answers false is invoked once on a non-empty map (and
\* is never invoked a second time), and one that always answers true is
\* invoked as many times as the loaded snapshot has entries.
RangeEarlyExit ==
    /\ \A p \in Procs :
          (op[p].name = "Range" /\ op[p].value = 1) => acc[p] = <<>>
    /\ \A e \in AllReturned :
          e.call.name = "Range" =>
              LET n == Cardinality(DOMAIN heap[e.obs])
                  visits == Len(e.ret.seq)
              IN  /\ NoRepeat(e.ret.seq)
                  /\ SeqSet(e.ret.seq) \subseteq Entries(heap[e.obs])
                  /\ e.ret.ok => visits = n
                  /\ ~e.ret.ok => visits \in 1..n
                  /\ e.call.value = 1 => (visits = (IF n = 0 THEN 0 ELSE 1) /\ e.ret.ok = (n = 0))
                  /\ e.call.value = 2 => (visits = n /\ e.ret.ok)

\* On a map of two entries, a Range whose visitor always answers false has
\* made one visit and a Range whose visitor always answers true has made two.
RangeEarlyExitWitness ==
    /\ LenNow = 2
    /\ \E e \in AllReturned, g \in AllReturned :
          /\ e.call.name = "Range" /\ e.call.value = 1 /\ Len(e.ret.seq) = 1
          /\ g.call.name = "Range" /\ g.call.value = 2 /\ Len(g.ret.seq) = 2
          /\ e.obs = cell /\ g.obs = cell

\* ---- one goroutine fills the map, then calls Keys or Values while the others write ----
CollectCall(p) ==
    \E n \in {"Keys", "Values"} :
        /\ p = 1
        /\ NumMade({"Keys", "Values"}) = 0
        /\ Call(p, MkCall(n, 0, Zero, Zero))

DisturbCollect(p) ==
    \E c \in SetCalls \cup DeleteCalls \cup {MkCall("Clear", 0, Zero, Zero)} :
        /\ p # 1
        /\ hist[p] = <<>>
        /\ NumMade({"Keys", "Values"}) = 1
        /\ Call(p, c)

NextCollect ==
    \E p \in Procs :
        \/ Fill(p) \/ CollectCall(p) \/ DisturbCollect(p)
        \/ CASMap_Keys(p) \/ CASMap_Values(p)
        \/ CASMap_Set(p) \/ CASMap_Delete(p) \/ CASMap_Clear(p)
        \/ RWMutexMap_Keys(p) \/ RWMutexMap_Values(p)
        \/ RWMutexMap_Set(p) \/ RWMutexMap_Delete(p) \/ RWMutexMap_Clear(p)

SpecCollect == Init /\ [][NextCollect]_vars

\* How many times x occurs in the sequence s.
Count(s, x) == Cardinality({i \in 1..Len(s) : s[i] = x})

\* C20: Keys() and Values() are computed from the one snapshot the call
\* loaded. While the slice is built it holds distinct entries of that
\* snapshot; Keys() returns as many keys as the snapshot has and every key of
\* it; Values() returns every value as many times as the snapshot has keys
\* holding it; whatever is published meanwhile.
KeysValuesSnapshot ==
    /\ \A p \in Procs :
          (op[p].name \in {"Keys", "Values"} /\ pc[p] = "iter") =>
              /\ SeqSet(acc[p]) \subseteq Entries(heap[data[p]])
              /\ NoRepeat(acc[p])
    /\ \A e \in AllReturned :
          LET m == heap[e.obs]
          IN  /\ e.call.name = "Keys" =>
                    /\ Len(e.ret.seq) = Cardinality(DOMAIN m)
                    /\ SeqSet(e.ret.seq) = DOMAIN m
              /\ e.call.name = "Values" =>
                    /\ Len(e.ret.seq) = Cardinality(DOMAIN m)
                    /\ \A x \in Vals :
                          Count(e.ret.seq, x) = Cardinality({k \in DOMAIN m : m[k] = x})

\* Values() has returned the same value twice, from a snapshot of two keys
\* holding it, although the current snapshot no longer holds both.
KeysValuesSnapshotWitness ==
    \E e \in AllReturned :
        /\ e.call.name = "Values"
        /\ Len(e.ret.seq) = 2 /\ e.ret.seq[1] = e.ret.seq[2]
        /\ cell > e.obs
        /\ LenNow < 2

\* ---- a published snapshot against the one it replaced ----
\* new is what the write c makes of old: the entries at the other keys are
\* those of old, and the entry at c.key is what the method leaves there.
SingleKeyChange(new, old, c) ==
    /\ (DOMAIN new) \ {c.key} = (DOMAIN old) \ {c.key}
    /\ \A x \in (DOMAIN old) \ {c.key} : new[x] = old[x]
    /\ CASE c.name = "Set" ->
                c.key \in DOMAIN new /\ new[c.key] = c.value
          [] c.name = "Delete" ->
                c.key \in DOMAIN old /\ c.key \notin DOMAIN new
          [] c.name \in {"GetOrSet", "SetIfAbsent"} ->
                c.key \notin DOMAIN old /\ c.key \in DOMAIN new /\ new[c.key] = c.value
          [] c.name = "CompareAndSwap" ->
                /\ c.key \in DOMAIN old /\ old[c.key] = c.old
                /\ c.key \in DOMAIN new /\ new[c.key] = c.value
          [] OTHER -> FALSE

\* C21: CASMap. The copy a writer holds at its CAS is the snapshot it loaded
\* in this iteration with the one key of the call changed; a call that
\* published did so right over the snapshot it had loaded; so every
\* snapshot published by Set, Delete, GetOrSet, SetIfAbsent or
\* CompareAndSwap is the one current just before it with that single key
\* added, changed or removed.
CASReplacesLoaded ==
    engine = "cas" =>
        /\ \A p \in Procs :
              pc[p] = "cas" => SingleKeyChange(newMap[p], heap[oldPtr[p]], op[p])
        /\ \A e \in AllReturned :
              (e.pub # 0 /\ e.call.name # "Clear") =>
                  (e.obs = e.pub - 1 /\ pubs[e.pub].prev = e.obs)
        /\ \A a \in 2..Len(heap) :
              pubs[a].call.name # "Clear" =>
                  SingleKeyChange(heap[a], heap[a - 1], pubs[a].call)

\* CASMap: after the first Set two goroutines have each published a write,
\* and the map holds the keys of both.
CASReplacesLoadedWitness ==
    /\ engine = "cas" /\ AllIdle
    /\ cell = 4
    /\ pubs[3].proc # pubs[4].proc
    /\ pubs[3].call.name # "Clear" /\ pubs[4].call.name # "Clear"
    /\ pubs[3].call.key # pubs[4].call.key
    /\ LenNow = 2

\* The calls that have returned having published by a CAS.
Winners == {x \in HistIdx : hist[x[1]][x[2]].pub # 0 /\ hist[x[1]][x[2]].call.name # "Clear"}

\* C22: CASMap. No two calls have published over the same loaded pointer, and
\* a writer still at its CAS with the pointer a winner had loaded no longer
\* finds it in the cell; a CAS succeeds exactly when the cell still holds the
\* pointer loaded in this iteration, and a CAS that fails changes nothing
\* and sends its writer back to a fresh load, its copy dropped.
OneWinnerPerSnapshot ==
    /\ [](/\ \A x \in Winners, y \in Winners :
                x # y => hist[x[1]][x[2]].obs # hist[y[1]][y[2]].obs
          /\ \A x \in Winners, p \in Procs :
                (pc[p] = "cas" /\ oldPtr[p] = hist[x[1]][x[2]].obs) => cell # oldPtr[p])
    /\ [][\A p \in Procs :
             (pc[p] = "cas" /\ pc'[p] # "cas") =>
                 IF oldPtr[p] = cell
                 THEN /\ pc'[p] = "idle"
                      /\ cell' = Len(heap) + 1
                      /\ heap' = Append(heap, newMap[p])
                 ELSE /\ pc'[p] = "load"
                      /\ oldPtr'[p] = 0 /\ newMap'[p] = EmptyMap
                      /\ UNCHANGED <<heap, cell, pubs, hist>>]_vars

\* Two writers loaded the same pointer; one has published over it and
\* returned, the other is at its CAS with that pointer and a copy built from it.
OneWinnerPerSnapshotWitness ==
    \E x \in Winners, p \in Procs :
        /\ p # x[1]
        /\ pc[p] = "cas"
        /\ oldPtr[p] = hist[x[1]][x[2]].obs
        /\ oldPtr[p] >= 2
        /\ newMap[p] # heap[cell]

\* ---- the critical section of the RWMutexMap ----
\* Goroutine p is between m.mu.Lock() and the deferred m.mu.Unlock().
InSection(p) ==
    /\ engine = "mutex"
    /\ op[p].name \in WriteNames
    /\ pc[p] \in {"load", "copy", "store", "unlock"}

\* C23: RWMutexMap. At most one goroutine is between Lock and Unlock, and it
\* is the holder of the lock; the cell changes only by the store of the
\* holder, which, unless it is Clear, loaded the snapshot being replaced
\* inside the same critical section; so every call that published did so
\* right over the snapshot it loaded and checked, and every snapshot
\* published by a method other than Clear is the one before it with the one
\* key of the call changed.
WriterExclusion ==
    /\ [](engine = "mutex" =>
            /\ Cardinality({p \in Procs : InSection(p)}) <= 1
            /\ \A p \in Procs : InSection(p) <=> mu = p
            /\ \A p \in Procs :
                  (InSection(p) /\ oldPtr[p] # 0) => oldPtr[p] = (IF newPtr[p] = 0 THEN cell ELSE cell - 1)
            /\ \A e \in AllReturned :
                  (e.pub # 0 /\ e.call.name # "Clear") => e.obs = e.pub - 1
            /\ \A a \in 2..Len(heap) :
                  pubs[a].call.name # "Clear" =>
                      SingleKeyChange(heap[a], heap[a - 1], pubs[a].call))
    /\ [][(engine = "mutex" /\ cell' # cell) =>
             /\ mu # 0 /\ mu' = mu
             /\ pc[mu] = "store" /\ pc'[mu] = "unlock"
             /\ pubs' = Append(pubs, [proc |-> mu, call |-> op[mu], prev |-> cell])]_vars

\* RWMutexMap: a writer holds the lock with its copy built, and another
\* writer is waiting at Lock().
WriterExclusionWitness ==
    \E p \in Procs, q \in Procs :
        /\ InSection(p) /\ pc[p] = "store" /\ op[p].name # "Clear"
        /\ op[q].name \in WriteNames /\ pc[q] = "lock"
        /\ oldPtr[p] >= 2

\* ---- the read methods leave the container as it is ----
\* Goroutine p, executing a read method, takes a step.
ReadStep(p) ==
    /\ op[p].name \in ReadNames
    /\ pc'[p] # pc[p] \/ acc'[p] # acc[p] \/ data'[p] # data[p]

\* C24: in both engines a step of Get, Has, Len, Range, Keys or Values
\* leaves the cell, every published snapshot, the publication log and the
\* lock as they are; a read never holds the lock and its return records no
\* publication; and Get has returned (value, true) when its key is in the
\* snapshot it loaded, (zero value, false) when it is not.
ReadsHaveNoEffect ==
    /\ [](/\ mu # 0 => op[mu].name \notin ReadNames
          /\ \A e \in AllReturned : e.call.name \in ReadNames => e.pub = 0
          /\ \A e \in AllReturned :
                e.call.name = "Get" =>
                    IF e.call.key \in DOMAIN heap[e.obs]
                    THEN e.ret.v = heap[e.obs][e.call.key] /\ e.ret.ok
                    ELSE e.ret.v = Zero /\ ~e.ret.ok)
    /\ [][\A p \in Procs : ReadStep(p) => UNCHANGED <<cell, heap, mu, pubs>>]_vars

\* A Get has returned a value it found while a writer of the RWMutexMap
\* stands in its critical section, about to store, and the cell still holds
\* the snapshot the value was read from.
ReadsHaveNoEffectWitness ==
    /\ \E e \in AllReturned :
          /\ e.call.name = "Get" /\ e.ret.ok /\ e.ret.v # Zero
          /\ e.obs = cell
    /\ mu # 0 /\ pc[mu] = "store"

\* ---- the outcomes that change nothing ----
\* The result r of a call of c.name says the call changed nothing: GetOrSet
\* found the key, SetIfAbsent did not insert, CompareAndSwap did not swap.
Negative(c, r) ==
    \/ c.name = "GetOrSet" /\ r.ok
    \/ c.name \in {"SetIfAbsent", "CompareAndSwap"} /\ ~r.ok

\* The snapshot m makes CompareAndSwap c fail: the key is absent or its
\* value is not equal to c.old.
Mismatch(m, c) == c.key \notin DOMAIN m \/ ~compare(m[c.key], c.old)

\* C25: in both engines a call of GetOrSet, SetIfAbsent or CompareAndSwap
\* that returns a negative outcome has published nothing, and a call about
\* to return one under the lock has stored nothing; every publication of
\* these methods belongs to a call with a positive outcome; the step that
\* returns a negative outcome leaves the cell and the snapshots alone. A
\* CASMap.CompareAndSwap returns false from the iteration whose loaded
\* snapshot mismatches, in the very step that finds the mismatch, and is at
\* its CAS only with a loaded snapshot that matches.
NegativePublishNothing ==
    /\ [](/\ \A e \in AllReturned : Negative(e.call, e.ret) => e.pub = 0
          /\ \A p \in Procs :
                (pc[p] = "unlock" /\ Negative(op[p], rv[p])) => newPtr[p] = 0
          /\ \A n \in {"GetOrSet", "SetIfAbsent", "CompareAndSwap"} :
                Cardinality(PubsOf(n)) = Publishers(n)
          /\ \A a \in 2..Len(pubs) :
                pubs[a].call.name \in {"GetOrSet", "SetIfAbsent"} =>
                    pubs[a].call.key \notin DOMAIN heap[pubs[a].prev]
          /\ \A a \in 2..Len(pubs) :
                pubs[a].call.name = "CompareAndSwap" => ~Mismatch(heap[pubs[a].prev], pubs[a].call)
          /\ engine = "cas" =>
                /\ \A e \in AllReturned :
                      (e.call.name = "CompareAndSwap" /\ ~e.ret.ok) => Mismatch(heap[e.obs], e.call)
                /\ \A p \in Procs :
                      (op[p].name = "CompareAndSwap" /\ pc[p] = "cas") =>
                          ~Mismatch(heap[oldPtr[p]], op[p]))
    /\ [][\A p \in Procs :
             /\ (Len(hist'[p]) > Len(hist[p]) /\ Negative(op[p], hist'[p][Len(hist'[p])].ret)) =>
                    UNCHANGED <<cell, heap, pubs>>
             /\ (engine = "cas" /\ op[p].name = "CompareAndSwap" /\ pc[p] = "copy"
                    /\ pc'[p] # "copy" /\ Mismatch(heap[oldPtr[p]], op[p])) =>
                    /\ pc'[p] = "idle" /\ UNCHANGED <<cell, heap, pubs>>
                    /\ hist'[p][Len(hist'[p])].ret = Ret(Zero, FALSE, <<>>)]_vars

\* A CompareAndSwap that found its key with another value and a SetIfAbsent
\* that found its key present have both returned false, and the cell still
\* holds the snapshot of the first Set.
NegativePublishNothingWitness ==
    /\ \E e \in AllReturned :
          /\ e.call.name = "CompareAndSwap" /\ ~e.ret.ok
          /\ e.call.key \in DOMAIN heap[e.obs]
    /\ \E e \in AllReturned : e.call.name = "SetIfAbsent" /\ ~e.ret.ok
    /\ AllIdle /\ cell = 2 /\ Len(heap) = 2

\* ---- RWMutexMap: k is set; then the goroutines race write methods on k ----
InitMutex == Init /\ engine = "mutex"

NextMutexWrites ==
    \E p \in Procs :
        \/ Seed(p) \/ RaceCall(p)
        \/ RWMutexMap_Set(p) \/ RWMutexMap_Delete(p) \/ RWMutexMap_Clear(p)
        \/ RWMutexMap_GetOrSet(p) \/ RWMutexMap_SetIfAbsent(p) \/ RWMutexMap_CompareAndSwap(p)

\* A goroutine that can take a step of its call keeps being scheduled; a
\* goroutine waiting in Lock() can step once the lock is free.
FairMutex == \A p \in Procs : WF_vars(RWMutexMap_Step(p))

SpecMutexWrites == InitMutex /\ [][NextMutexWrites]_vars /\ FairMutex

\* The addresses published by calls that have returned or are about to unlock.
Accounted ==
    {hist[x[1]][x[2]].pub : x \in {y \in HistIdx : hist[y[1]][y[2]].pub # 0}}
        \cup {newPtr[p] : p \in {q \in Procs : newPtr[q] # 0}}

\* C26: RWMutexMap. The lock is held only by a write between its Lock and
\* its Unlock, so it is free whenever no write is in progress; a goroutine
\* takes the lock only from its Lock() and never comes back to Lock() within
\* a call; each call accounts for at most one publication; every return of
\* a write that took the lock, early or not, releases it in the same step;
\* a call that is not waiting for a held lock can always step; and with
\* finitely many calls and every goroutine scheduled again and again, every
\* waiting writer gets the lock and every call returns.
MutexWritesTerminate ==
    /\ [](/\ mu # 0 => InSection(mu)
          /\ (\A p \in Procs : ~(op[p].name \in WriteNames /\ pc[p] # "idle")) => mu = 0
          /\ \A p \in Procs :
                (pc[p] # "idle" /\ ~(pc[p] = "lock" /\ mu # 0)) => ENABLED RWMutexMap_Step(p)
          /\ Accounted = 2..Len(pubs)
          /\ Len(pubs) - 1 = Cardinality({x \in HistIdx : hist[x[1]][x[2]].pub # 0})
                               + Cardinality({p \in Procs : newPtr[p] # 0}))
    /\ [][\A p \in Procs :
             /\ (mu' = p /\ mu # p) => (mu = 0 /\ pc[p] = "lock" /\ pc'[p] \in {"load", "store"})
             /\ (pc'[p] = "lock" /\ pc[p] # "lock") => pc[p] \in {"idle", "check"}
             /\ (pc'[p] = "idle" /\ pc[p] \notin {"idle", "check"}) =>
                    (pc[p] = "unlock" /\ mu = p /\ mu' = 0)
             /\ (cell' # cell /\ mu = p) => newPtr[p] = 0 /\ newPtr'[p] = cell']_vars
    /\ \A p \in Procs : (pc[p] = "lock") ~> (mu = p)
    /\ \A p \in Procs : (pc[p] # "idle") ~> (pc[p] = "idle")

\* A writer waits in Lock() while the holder of the lock is on an early
\* return path, having stored nothing, with the deferred Unlock still to run.
MutexWritesTerminateWitness ==
    \E p \in Procs, q \in Procs :
        /\ mu = p /\ pc[p] = "unlock" /\ newPtr[p] = 0
        /\ op[p].name \in {"Delete", "GetOrSet", "SetIfAbsent", "CompareAndSwap"}
        /\ pc[q] = "lock" /\ op[q].name \in WriteNames

\* ---- one goroutine fills the map and clears it; another writes a key meanwhile ----
ClearAfterFill(p) ==
    /\ p = 1
    /\ hist[p] # <<>>
    /\ NumMade({"Clear"}) = 0
    /\ Call(p, MkCall("Clear", 0, Zero, Zero))

\* The other goroutine calls Set or CompareAndSwap once, at any moment after
\* the first entry is in.
RaceClear(p) ==
    \E c \in SetCalls \cup CompareAndSwapCalls :
        /\ p = 2
        /\ hist[1] # <<>>
        /\ hist[p] = <<>>
        /\ Call(p, c)

NextClearRace ==
    \E p \in Procs :
        \/ Fill(p) \/ ClearAfterFill(p) \/ RaceClear(p)
        \/ CASMap_Set(p) \/ CASMap_Clear(p) \/ CASMap_CompareAndSwap(p)
        \/ RWMutexMap_Set(p) \/ RWMutexMap_Clear(p) \/ RWMutexMap_CompareAndSwap(p)

SpecClearRace == Init /\ [][NextClearRace]_vars

\* The keys set by the publications at the addresses after a and up to b.
SetSince(a, b) == {pubs[x].call.key : x \in {y \in (a + 1)..b : pubs[y].call.name = "Set"}}

\* C27: in both engines every snapshot published by Set or CompareAndSwap
\* is the snapshot current just before it with the one key changed, so no
\* copy built from older content is ever installed; after the publication
\* of a Clear a snapshot holds only keys set by publications that follow
\* that Clear. A CASMap writer at its CAS with a pointer loaded before a
\* published Clear fails that CAS; an RWMutexMap writer inside the critical
\* section holds the current snapshot. A CompareAndSwap that returned true
\* published before the Clear, so it did not put its key back; and when
\* the Clear and the racing Set(k, v) have both returned, the map is empty
\* or exactly {k -> v}.
ClearIsFinal ==
    /\ \A a \in 2..Len(heap) :
          IF pubs[a].call.name = "Clear"
          THEN heap[a] = EmptyMap
          ELSE SingleKeyChange(heap[a], heap[a - 1], pubs[a].call)
    /\ \A c \in PubsOf("Clear") : \A a \in c..Len(heap) :
          /\ DOMAIN heap[a] \subseteq SetSince(c, a)
          /\ pubs[a].call.name = "CompareAndSwap" => a < c
    /\ \A c \in PubsOf("Clear") : \A p \in Procs :
          /\ (engine = "cas" /\ pc[p] = "cas" /\ oldPtr[p] < c) => ~CASMatches(oldPtr[p])
          /\ (InSection(p) /\ oldPtr[p] # 0 /\ newPtr[p] = 0) => oldPtr[p] = cell
    /\ \A c \in PubsOf("Clear") : \A e \in AllReturned :
          (e.call.name = "CompareAndSwap" /\ e.ret.ok) => (e.pub # 0 /\ e.pub < c)
    /\ \A c \in PubsOf("Clear") : \A e \in AllReturned :
          (e.call.name = "CompareAndSwap" /\ e.obs >= c) => ~e.ret.ok
    /\ (AllIdle /\ PubsOf("Clear") # {} /\ hist[2] # <<>>) =>
          LET r == hist[2][1].call
          IN  \/ heap[cell] = EmptyMap
              \/ r.name = "Set" /\ heap[cell] = [x \in {r.key} |-> r.value]

\* CASMap: the Clear has returned, having emptied a map with an entry, while
\* the racing writer holds at its CAS a copy built from the content before
\* the Clear, with an entry the Clear removed.
ClearIsFinalWitness ==
    /\ engine = "cas"
    /\ \E c \in PubsOf("Clear"), p \in Procs :
          /\ cell = c
          /\ pc[p] = "cas" /\ oldPtr[p] < c
          /\ \E k \in DOMAIN newMap[p] : k # op[p].key

\* ---- why a CAS fails ----
\* The publications made by goroutines other than p after the address a.
OthersSince(p, a) == {x \in (a + 1)..Len(pubs) : pubs[x].proc # p}

\* C28: CASMap. Publication and return are one step, so the cell is the
\* newest publication of a returned call. A writer at its CAS whose loaded
\* pointer is not the cell's has been overtaken: the cell moved on, by
\* publications of other goroutines only, after the load of this iteration.
\* A CAS is retried only when such a publication exists, and only after a
\* publication made since the call began; a CAS attempted while the cell
\* still holds the loaded pointer publishes and returns.
CASFailureHasCause ==
    /\ [](engine = "cas" =>
            /\ RetPub = cell /\ cell = Len(heap)
            /\ \A p \in Procs :
                  pc[p] = "cas" =>
                      /\ oldPtr[p] \in floor[p]..cell
                      /\ \A x \in (oldPtr[p] + 1)..cell : pubs[x].proc \notin {0, p}
                      /\ ~CASMatches(oldPtr[p]) => OthersSince(p, oldPtr[p]) # {}
                      /\ cell = floor[p] => CASMatches(oldPtr[p]))
    /\ [][\A p \in Procs :
             (engine = "cas" /\ pc[p] = "cas" /\ pc'[p] # "cas") =>
                 IF OthersSince(p, oldPtr[p]) = {}
                 THEN /\ pc'[p] = "idle"
                      /\ cell' = cell + 1
                      /\ pubs'[cell'].proc = p
                      /\ hist'[p][Len(hist'[p])].pub = cell'
                 ELSE /\ pc'[p] = "load"
                      /\ cell > floor[p]
                      /\ UNCHANGED <<cell, heap, pubs, hist>>]_vars

\* A writer is at its CAS with the pointer it loaded, and the store of a
\* Clear by the other goroutine has replaced that pointer since.
CASFailureHasCauseWitness ==
    \E p \in Procs :
        /\ pc[p] = "cas"
        /\ oldPtr[p] = cell - 1
        /\ pubs[cell].call.name = "Clear" /\ pubs[cell].proc # p
        /\ newMap[p] # EmptyMap

\* ---- GetOrSet, SetIfAbsent, Delete and Clear on one key ----
InsertNames == {"GetOrSet", "SetIfAbsent"}

InsertCall(p) ==
    \E c \in GetOrSetCalls \cup SetIfAbsentCalls \cup DeleteCalls \cup {MkCall("Clear", 0, Zero, Zero)} :
        /\ NumMade(WriteNames) < MaxInserts
        /\ \A d \in Made : c.key = 0 \/ d.key \in {0, c.key}
        /\ Call(p, c)

NextInserts ==
    \E p \in Procs :
        \/ InsertCall(p)
        \/ CASMap_GetOrSet(p) \/ CASMap_SetIfAbsent(p) \/ CASMap_Delete(p) \/ CASMap_Clear(p)
        \/ RWMutexMap_GetOrSet(p) \/ RWMutexMap_SetIfAbsent(p) \/ RWMutexMap_Delete(p)
        \/ RWMutexMap_Clear(p)

SpecInserts == Init /\ [][NextInserts]_vars

\* The result r of the call c says the call inserted its key.
Inserting(c, r) ==
    \/ c.name = "GetOrSet" /\ ~r.ok
    \/ c.name = "SetIfAbsent" /\ r.ok

\* The address of the snapshot the call of p has loaded last.
Loaded(p) == IF oldPtr[p] # 0 THEN oldPtr[p] ELSE data[p]

\* C29: in both engines a GetOrSet that returns existed=false and a
\* SetIfAbsent that returns true have each made one publication of their
\* own, and no other call has; between two publications of GetOrSet or
\* SetIfAbsent for one key there is a publication of a Delete of that key
\* or of a Clear. A GetOrSet that returns existed=true returns the value its
\* key has in the published snapshot the call loaded last, and every load
\* of a call returns the pointer the cell holds at that step of the call.
InsertsJustified ==
    /\ [](/\ \A x \in HistIdx :
                LET e == hist[x[1]][x[2]]
                IN  IF Inserting(e.call, e.ret)
                    THEN /\ e.pub \in 2..Len(pubs)
                         /\ pubs[e.pub].proc = x[1] /\ pubs[e.pub].call = e.call
                    ELSE e.call.name \in InsertNames => e.pub = 0
          /\ \A n \in InsertNames : Cardinality(PubsOf(n)) = Publishers(n)
          /\ \A a \in 2..Len(pubs), b \in 2..Len(pubs) :
                (/\ a < b
                 /\ pubs[a].call.name \in InsertNames /\ pubs[b].call.name \in InsertNames
                 /\ pubs[a].call.key = pubs[b].call.key) =>
                    \E x \in (a + 1)..(b - 1) :
                        \/ pubs[x].call.name = "Clear"
                        \/ pubs[x].call.name = "Delete" /\ pubs[x].call.key = pubs[a].call.key
          /\ \A e \in AllReturned :
                (e.call.name = "GetOrSet" /\ e.ret.ok) =>
                    /\ e.obs \in 1..cell
                    /\ e.call.key \in DOMAIN heap[e.obs]
                    /\ e.ret.v = heap[e.obs][e.call.key])
    /\ [][\A p \in Procs :
             /\ (data'[p] # data[p] /\ data'[p] # 0) =>
                    (pc[p] # "idle" /\ data'[p] = cell /\ cell' = cell)
             /\ (oldPtr'[p] # oldPtr[p] /\ oldPtr'[p] # 0) =>
                    (pc[p] # "idle" /\ oldPtr'[p] = cell /\ cell' = cell)
             /\ (Len(hist'[p]) > Len(hist[p])) =>
                    hist'[p][Len(hist'[p])].obs = Loaded(p)]_vars

\* A key has been inserted, removed and inserted again: the second insert
\* is a GetOrSet that returned existed=false, made by another goroutine
\* than the first.
InsertsJustifiedWitness ==
    /\ AllIdle /\ Len(pubs) = 4
    /\ pubs[2].call.name \in InsertNames
    /\ pubs[3].call.name \in {"Delete", "Clear"}
    /\ pubs[4].call.name = "GetOrSet"
    /\ pubs[4].proc # pubs[2].proc
    /\ heap[4] # heap[2]

\* ---- one goroutine reads twice while another writes ----
ReadTwice(p) ==
    \E c \in ReadCalls :
        /\ p = 1
        /\ Len(hist[p]) < MaxCalls
        /\ Call(p, c)

WriteBeside(p) ==
    \E c \in SetCalls \cup DeleteCalls \cup {MkCall("Clear", 0, Zero, Zero)} :
        /\ p # 1
        /\ Len(hist[p]) < MaxCalls
        /\ Call(p, c)

NextTwoReads ==
    \E p \in Procs :
        \/ ReadTwice(p) \/ WriteBeside(p)
        \/ CASMap_Get(p) \/ CASMap_Has(p) \/ CASMap_Len(p)
        \/ CASMap_Range(p) \/ CASMap_Keys(p) \/ CASMap_Values(p)
        \/ CASMap_Set(p) \/ CASMap_Delete(p) \/ CASMap_Clear(p)
        \/ RWMutexMap_Get(p) \/ RWMutexMap_Has(p) \/ RWMutexMap_Len(p)
        \/ RWMutexMap_Range(p) \/ RWMutexMap_Keys(p) \/ RWMutexMap_Values(p)
        \/ RWMutexMap_Set(p) \/ RWMutexMap_Delete(p) \/ RWMutexMap_Clear(p)

SpecTwoReads == Init /\ [][NextTwoReads]_vars

\* The reads goroutine p has completed, by their position in its history.
ReadsOf(p) == {i \in 1..Len(hist[p]) : hist[p][i].call.name \in ReadNames}

\* C30: in both engines the addresses of the snapshots follow the order of
\* publication, each published over the one before it; a read observes a
\* published snapshot; of two reads completed by one goroutine the later
\* observed the same snapshot as the earlier or one published after it; and
\* the snapshot a read in progress has loaded is not older than any
\* snapshot observed by an earlier read of that goroutine.
MonotonicReads ==
    /\ \A a \in 2..Len(pubs) : pubs[a].prev = a - 1
    /\ \A p \in Procs :
          /\ \A i \in ReadsOf(p) : hist[p][i].obs \in 1..cell
          /\ \A i \in ReadsOf(p), j \in ReadsOf(p) :
                i < j => hist[p][i].obs <= hist[p][j].obs
          /\ (op[p].name \in ReadNames /\ data[p] # 0) =>
                \A i \in ReadsOf(p) : hist[p][i].obs <= data[p]

\* A goroutine has completed two reads; the second observed a snapshot
\* published after the one the first observed, and the cell has moved on
\* again since.
MonotonicReadsWitness ==
    \E p \in Procs :
        /\ Len(hist[p]) = 2 /\ ReadsOf(p) = {1, 2}
        /\ hist[p][1].obs < hist[p][2].obs
        /\ hist[p][2].obs < cell

====
